---- MODULE Spec2Model ----
(***************************************************************************)
(* Configuration validation and secrets projection of adbc_drivers_dev:    *)
(* GenerateConfig (generate.py, a pydantic model) and Params (workflow.py, *)
(* the hand-written validator used by generate_workflows).                *)
(*                                                                         *)
(* A raw configuration (the mapping read from generate.toml) is a record   *)
(* with one field per recognised root key plus `extra`, the set of root    *)
(* keys outside the schema.  A value that may be missing carries a kind    *)
(* tag k ("absent" when the key is not in the mapping).                    *)
(***************************************************************************)
EXTENDS Integers, Sequences, FiniteSets, TLC

\* ------------------------------------------------------------------ bounds
\* longest `contexts` list of an enumerated secret
MaxCtxLen == 2
\* longest enumerated `environment` string, in characters
MaxEnvLen == 2

\* ------------------------------------------------------------ map helpers
EmptyMap == <<>>

Range(f) == {f[i] : i \in DOMAIN f}

\* dict[k] = v
Put(m, key, v) == [x \in DOMAIN m \cup {key} |-> IF x = key THEN v ELSE m[x]]

\* dict.update(other)
Update(m, other) ==
    [x \in DOMAIN m \cup DOMAIN other |-> IF x \in DOMAIN other THEN other[x] ELSE m[x]]

\* the keys of a dict in insertion order; inputs are enumerated with their
\* keys inserted in the order given by `order`
OrderedKeys(m, order) == SelectSeq(order, LAMBDA x : x \in DOMAIN m)

SeqsUpTo(S, n) == UNION {[1..i -> S] : i \in 0..n}

\* ------------------------------------------------------------- raw values
\* a scalar TOML value: absent key, null, bool, integer or string
Absent == [k |-> "absent", b |-> FALSE, n |-> 0, s |-> ""]
None == [k |-> "none", b |-> FALSE, n |-> 0, s |-> ""]
B(x) == [k |-> "bool", b |-> x, n |-> 0, s |-> ""]
I(x) == [k |-> "int", b |-> FALSE, n |-> x, s |-> ""]
S(x) == [k |-> "str", b |-> FALSE, n |-> 0, s |-> x]

\* the environment value keeps its characters, so that strip() is computed
EnvAbsent == [k |-> "absent", cs |-> <<>>]
EnvNone == [k |-> "none", cs |-> <<>>]
EnvInt == [k |-> "int", cs |-> <<>>]
EnvStr(cs) == [k |-> "str", cs |-> cs]

Whitespace == {" "}

RECURSIVE LStrip(_)
LStrip(cs) == IF cs # <<>> /\ Head(cs) \in Whitespace THEN LStrip(Tail(cs)) ELSE cs

RECURSIVE RStrip(_)
RStrip(cs) ==
    IF cs # <<>> /\ cs[Len(cs)] \in Whitespace THEN RStrip(SubSeq(cs, 1, Len(cs) - 1)) ELSE cs

\* str.strip()
Strip(cs) == RStrip(LStrip(cs))

\* ------------------------------------------------------ generate.py names
WORKFLOW_CONTEXTS == <<"build:test", "build:release", "test", "validate">>

WorkflowContext == Range(WORKFLOW_CONTEXTS)

\* ---------------------------------------------------------- raw sections
\* aws: absent, null, or a table with an optional region and unknown keys
AwsAbsent == [k |-> "absent", hasRegion |-> FALSE, region |-> "", extra |-> {}]
AwsNone == [k |-> "none", hasRegion |-> FALSE, region |-> "", extra |-> {}]
AwsMap(hasRegion, extra) ==
    [k |-> "map", hasRegion |-> hasRegion,
     region |-> IF hasRegion THEN "us-west-2" ELSE "", extra |-> extra]

\* a secrets.<name> value: a bare string, an integer, or a table
SecretStr(s) ==
    [k |-> "str", s |-> s, hasSecret |-> FALSE, secret |-> "",
     hasContexts |-> FALSE, contexts |-> <<>>, extra |-> {}]
SecretInt ==
    [k |-> "int", s |-> "", hasSecret |-> FALSE, secret |-> "",
     hasContexts |-> FALSE, contexts |-> <<>>, extra |-> {}]
SecretMap(hasSecret, secret, hasContexts, contexts, extra) ==
    [k |-> "map", s |-> "", hasSecret |-> hasSecret, secret |-> secret,
     hasContexts |-> hasContexts, contexts |-> contexts, extra |-> extra]

SecretsAbsent == [k |-> "absent", m |-> EmptyMap]
SecretsMap(m) == [k |-> "map", m |-> m]

\* a lang.<name>.build value
BuildAbsent == [k |-> "absent", args |-> <<>>, tools |-> <<>>, extra |-> {}]
BuildMap(args, tools, extra) == [k |-> "map", args |-> args, tools |-> tools, extra |-> extra]

\* a lang.<name> value: bool, integer, string, or a table with an optional
\* skip-validate (given under the key skipKey), an optional build table and
\* unknown keys
LangScalar(v) ==
    [k |-> v.k, b |-> v.b, n |-> v.n, s |-> v.s,
     skip |-> Absent, skipKey |-> "", build |-> BuildAbsent, extra |-> {}]
LangMap(skip, skipKey, build, extra) ==
    [k |-> "map", b |-> FALSE, n |-> 0, s |-> "",
     skip |-> skip, skipKey |-> skipKey, build |-> build, extra |-> extra]

\* lang: absent, null, a bool, or a table of entries
LangAbsent == [k |-> "absent", b |-> FALSE, m |-> EmptyMap]
LangNone == [k |-> "none", b |-> FALSE, m |-> EmptyMap]
LangBool(x) == [k |-> "bool", b |-> x, m |-> EmptyMap]
LangTable(m) == [k |-> "map", b |-> FALSE, m |-> m]

\* validation: absent, or a table with the dependencies given under depsKey
\* ("" when not given) and unknown keys
ValidationAbsent == [k |-> "absent", depsKey |-> "", deps |-> EmptyMap, extra |-> {}]
ValidationMap(depsKey, deps, extra) ==
    [k |-> "map", depsKey |-> depsKey, deps |-> deps, extra |-> extra]

\* the empty configuration {}
EmptyRaw ==
    [driver |-> Absent, environment |-> EnvAbsent, private |-> Absent,
     lang |-> LangAbsent, secrets |-> SecretsAbsent, aws |-> AwsAbsent,
     gcloud |-> Absent, validation |-> ValidationAbsent, extra |-> {}]

\* insertion order of the enumerated secrets and lang tables
SecretOrder == <<"foo", "fizz", "AWS_ROLE">>
LangOrder == <<"go", "rust">>

\* ------------------------------------------- pydantic field validation
\* one line of a ValidationError: the error type and the location path
Err(type, loc) == [type |-> type, loc |-> loc]

\* the strings a non-strict bool field accepts
BOOL_TRUE_STRINGS == {"1", "on", "t", "true", "y", "yes"}
BOOL_FALSE_STRINGS == {"0", "off", "f", "false", "n", "no"}

\* a field annotated `bool` (the models set no strict mode): a bool, the
\* integers 0 and 1 and the listed strings are accepted and converted
bool_accepts(v) ==
    \/ v.k = "bool"
    \/ v.k = "int" /\ v.n \in {0, 1}
    \/ v.k = "str" /\ v.s \in BOOL_TRUE_STRINGS \cup BOOL_FALSE_STRINGS

bool_value(v, default) ==
    CASE v.k = "absent" -> default
      [] v.k = "bool" -> v.b
      [] v.k = "int" -> v.n = 1
      [] v.k = "str" -> v.s \in BOOL_TRUE_STRINGS
      [] OTHER -> default

bool_errors(v, loc) ==
    IF v.k = "absent" \/ bool_accepts(v) THEN {}
    ELSE {Err(IF v.k \in {"int", "str"} THEN "bool_parsing" ELSE "bool_type", loc)}

\* model_config = {"extra": "forbid"}
extra_forbidden(extra, loc) == {Err("extra_forbidden", Append(loc, key)) : key \in extra}

\* ---- driver: str
driver_errors(v) == IF v.k \in {"absent", "str"} THEN {} ELSE {Err("string_type", <<"driver">>)}
driver_value(v) == IF v.k = "str" THEN v.s ELSE "(unknown)"

\* ---- environment: str | None, then validate_environment
validate_environment(v) ==
    IF v.k # "none" /\ Strip(v.cs) = <<>> THEN {Err("value_error", <<"environment">>)} ELSE {}

environment_errors(v) ==
    CASE v.k = "absent" -> {}
      [] v.k = "int" -> {Err("string_type", <<"environment">>)}
      [] OTHER -> validate_environment(v)

environment_value(v) == IF v.k = "str" THEN v ELSE EnvNone

\* ---- AwsConfig
AwsConfig_errors(a) ==
    IF a.k # "map" THEN {}
    ELSE (IF a.hasRegion THEN {} ELSE {Err("missing", <<"aws", "region">>)})
         \cup extra_forbidden(a.extra, <<"aws">>)

AwsConfig_value(a) ==
    IF a.k = "map" THEN [k |-> "AwsConfig", region |-> a.region] ELSE [k |-> "None"]

\* ---- ValidationConfig (extra-dependencies is read by alias or by name)
ValidationConfig_errors(v) ==
    IF v.k # "map" THEN {} ELSE extra_forbidden(v.extra, <<"validation">>)

ValidationConfig_value(v) ==
    [extra_dependencies |-> IF v.k = "map" /\ v.depsKey # "" THEN v.deps ELSE EmptyMap]

\* ---- SecretConfigDict and the union str | SecretConfigDict
SecretConfigDict_errors(e, loc) ==
    (IF e.hasSecret THEN {} ELSE {Err("missing", Append(loc, "secret"))})
    \cup {Err("literal_error", loc \o <<"contexts", ToString(i - 1)>>) :
            i \in {j \in DOMAIN e.contexts : e.contexts[j] \notin WorkflowContext}}
    \cup extra_forbidden(e.extra, loc)

secret_errors(var, e) ==
    LET loc == <<"secrets", var>>
        dictErrs == IF e.k = "map" THEN SecretConfigDict_errors(e, Append(loc, "SecretConfigDict"))
                    ELSE {Err("model_type", Append(loc, "SecretConfigDict"))}
    IN  IF e.k = "str" \/ dictErrs = {} THEN {}
        ELSE {Err("string_type", Append(loc, "str"))} \cup dictErrs

\* contexts defaults to list(WORKFLOW_CONTEXTS)
secret_value(e) ==
    IF e.k = "str" THEN [k |-> "str", s |-> e.s]
    ELSE [k |-> "SecretConfigDict", secret |-> e.secret,
          contexts |-> IF e.hasContexts THEN e.contexts ELSE WORKFLOW_CONTEXTS]

secrets_errors(sec) == UNION {secret_errors(var, sec.m[var]) : var \in DOMAIN sec.m}
secrets_value(sec) == [var \in DOMAIN sec.m |-> secret_value(sec.m[var])]

\* ---- LangBuildConfig and LangConfig
LangBuildConfig_errors(b, loc) == IF b.k # "map" THEN {} ELSE extra_forbidden(b.extra, loc)
LangBuildConfig_value(b) == [additional_make_args |-> b.args, lang_tools |-> b.tools]

\* LangConfig.true_is_enabled: a bool becomes the empty table
true_is_enabled(e) == IF e.k = "bool" THEN LangMap(Absent, "", BuildAbsent, {}) ELSE e

LangConfig_errors(entry, loc) ==
    LET e == true_is_enabled(entry)
    IN  IF e.k # "map" THEN {Err("model_type", loc)}
        ELSE bool_errors(e.skip, Append(loc, e.skipKey))
             \cup LangBuildConfig_errors(e.build, Append(loc, "build"))
             \cup extra_forbidden(e.extra, loc)

LangConfig_value(entry) ==
    LET e == true_is_enabled(entry)
    IN  [k |-> "LangConfig", build |-> LangBuildConfig_value(e.build),
         skip_validate |-> bool_value(e.skip, FALSE)]

\* LangConfig()
LangConfigDefault == LangConfig_value(LangScalar(B(TRUE)))

\* variant: every bool entry, False included, becomes LangConfig()
lang_boolean_any_bool(l) ==
    LET value == IF l.k = "map" THEN l.m ELSE EmptyMap
    IN  [name \in DOMAIN value |->
            LET v == value[name]
            IN  IF v.k = "bool" THEN [k |-> "instance", e |-> v]
                ELSE [k |-> "raw", e |-> v]]

\* GenerateConfig.lang_boolean, the "before" validator of lang: `value or {}`
\* then True -> LangConfig(), False -> None, anything else unchanged.  The
\* result tags each entry: "instance" (a LangConfig), "none", or "raw".
lang_boolean_raises(l) == l.k = "bool" /\ l.b

lang_boolean(l) ==
    LET value == IF l.k = "map" THEN l.m ELSE EmptyMap
    IN  [name \in DOMAIN value |->
            LET v == value[name]
            IN  IF v.k = "bool" /\ v.b THEN [k |-> "instance", e |-> v]
                ELSE IF v.k = "bool" /\ ~v.b THEN [k |-> "none", e |-> v]
                ELSE [k |-> "raw", e |-> v]]

\* lang: dict[str, LangConfig | None]
lang_errors(l) ==
    LET value == lang_boolean(l)
    IN  IF l.k = "absent" THEN {}
        ELSE UNION {IF value[name].k = "raw" /\ value[name].e.k # "none"
                    THEN LangConfig_errors(value[name].e, <<"lang", name>>) ELSE {} :
                    name \in DOMAIN value}

lang_value(l) ==
    LET value == lang_boolean(l)
    IN  [name \in DOMAIN value |->
            CASE value[name].k = "instance" -> LangConfigDefault
              [] value[name].k = "none" -> [k |-> "None"]
              [] value[name].e.k = "none" -> [k |-> "None"]
              [] OTHER -> LangConfig_value(value[name].e)]

\* ------------------- GenerateConfig.process_secrets_and_permissions
\* variant: the loop skips the first listed context
RECURSIVE assign_contexts_skip(_, _, _, _)
assign_contexts_skip(processed, contexts, secret_var, secret) ==
    IF contexts = <<>> \/ Tail(contexts) = <<>> THEN processed
    ELSE assign_contexts_skip([processed EXCEPT ![contexts[2]] = Put(@, secret_var, secret)],
                              Tail(contexts), secret_var, secret)

\* for context in contexts: processed[context][secret_var] = secret
RECURSIVE assign_contexts(_, _, _, _)
assign_contexts(processed, contexts, secret_var, secret) ==
    IF contexts = <<>> THEN processed
    ELSE assign_contexts([processed EXCEPT ![Head(contexts)] = Put(@, secret_var, secret)],
                         Tail(contexts), secret_var, secret)

\* variant: a bare string is written to the three contexts of Params only
secret_contexts_three(secret_config) ==
    IF secret_config.k = "str" THEN <<"build:release", "test", "validate">>
    ELSE secret_config.contexts

\* the contexts one secret is written to and the value written
secret_contexts(secret_config) ==
    IF secret_config.k = "str" THEN WORKFLOW_CONTEXTS ELSE secret_config.contexts

secret_name(secret_config) ==
    IF secret_config.k = "str" THEN secret_config.s ELSE secret_config.secret

\* for secret_var, secret_config in self.secrets.items(): ...
RECURSIVE process_each_secret(_, _, _)
process_each_secret(processed, secrets, order) ==
    IF order = <<>> THEN processed
    ELSE LET secret_var == Head(order)
             secret_config == secrets[secret_var]
         IN  process_each_secret(
                 assign_contexts(processed, secret_contexts(secret_config), secret_var,
                                 secret_name(secret_config)),
                 secrets, Tail(order))

\* all_secrets = {}; for context_secrets in processed.values(): update
RECURSIVE build_all(_, _, _)
build_all(all_secrets, processed, contexts) ==
    IF contexts = <<>> THEN all_secrets
    ELSE build_all(Update(all_secrets, processed[Head(contexts)]), processed, Tail(contexts))

\* variant: the session name entry is forgotten
aws_secrets_role_only(all_secrets, aws) ==
    IF aws.k # "None" THEN Put(all_secrets, "AWS_ROLE", "AWS_ROLE") ELSE all_secrets

aws_secrets(all_secrets, aws) ==
    IF aws.k # "None"
    THEN Put(Put(all_secrets, "AWS_ROLE", "AWS_ROLE"),
             "AWS_ROLE_SESSION_NAME", "AWS_ROLE_SESSION_NAME")
    ELSE all_secrets

\* variant: the provider entry is stored under the service account value
gcloud_secrets_swapped(all_secrets, gcloud) ==
    IF gcloud
    THEN Put(Put(all_secrets, "GCLOUD_SERVICE_ACCOUNT", "GCLOUD_SERVICE_ACCOUNT"),
             "GCLOUD_WORKLOAD_IDENTITY_PROVIDER", "GCLOUD_SERVICE_ACCOUNT")
    ELSE all_secrets

gcloud_secrets(all_secrets, gcloud) ==
    IF gcloud
    THEN Put(Put(all_secrets, "GCLOUD_SERVICE_ACCOUNT", "GCLOUD_SERVICE_ACCOUNT"),
             "GCLOUD_WORKLOAD_IDENTITY_PROVIDER", "GCLOUD_WORKLOAD_IDENTITY_PROVIDER")
    ELSE all_secrets

private_secrets(all_secrets, private) ==
    IF private THEN Put(all_secrets, "COLUMNAR_CLOUD_API_TOKEN", "COLUMNAR_CLOUD_API_TOKEN")
    ELSE all_secrets

\* {k: v for k, v in all_secrets.items() if v != "GITHUB_TOKEN"}
strip_github_token(all_secrets) ==
    [x \in {y \in DOMAIN all_secrets : all_secrets[y] # "GITHUB_TOKEN"} |-> all_secrets[x]]

processed_secrets(secrets, aws, gcloud, private) ==
    LET base == process_each_secret([c \in WorkflowContext |-> EmptyMap], secrets,
                                    OrderedKeys(secrets, SecretOrder))
        all_secrets == strip_github_token(
                           private_secrets(
                               gcloud_secrets(
                                   aws_secrets(build_all(EmptyMap, base, WORKFLOW_CONTEXTS), aws),
                                   gcloud),
                               private))
    IN  [c \in WorkflowContext \cup {"all"} |-> IF c = "all" THEN all_secrets ELSE base[c]]

permissions_of(aws, gcloud) ==
    IF aws.k # "None" \/ gcloud THEN ("id_token" :> TRUE) ELSE EmptyMap

process_secrets_and_permissions(cfg) ==
    [cfg EXCEPT !._processed_secrets =
                    processed_secrets(cfg.secrets, cfg.aws, cfg.gcloud, cfg.private),
                !._permissions = permissions_of(cfg.aws, cfg.gcloud)]

\* ------------------------------------------ GenerateConfig.model_validate
NoConfig == [k |-> "none"]

GenerateConfig_errors(r) ==
    extra_forbidden(r.extra, <<>>)
    \cup driver_errors(r.driver)
    \cup environment_errors(r.environment)
    \cup bool_errors(r.private, <<"private">>)
    \cup lang_errors(r.lang)
    \cup secrets_errors(r.secrets)
    \cup AwsConfig_errors(r.aws)
    \cup bool_errors(r.gcloud, <<"gcloud">>)
    \cup ValidationConfig_errors(r.validation)

GenerateConfig_fields(r) ==
    [k |-> "GenerateConfig",
     driver |-> driver_value(r.driver),
     environment |-> environment_value(r.environment),
     private |-> bool_value(r.private, FALSE),
     lang |-> lang_value(r.lang),
     secrets |-> secrets_value(r.secrets),
     aws |-> AwsConfig_value(r.aws),
     gcloud |-> bool_value(r.gcloud, FALSE),
     validation |-> ValidationConfig_value(r.validation),
     _processed_secrets |-> EmptyMap,
     _permissions |-> EmptyMap]

\* the outcome of a validation: accepted, or the exception raised
Accepted == [ok |-> TRUE, exc |-> "", errors |-> {}]
Raised(exc, errors) == [ok |-> FALSE, exc |-> exc, errors |-> errors]
NotRun == [ok |-> FALSE, exc |-> "not run", errors |-> {}]

\* an exception other than ValueError/AssertionError raised inside a
\* validator (lang_boolean calling .items() on a non-mapping) is not
\* collected into the ValidationError: it propagates as it is
model_validate_outcome(r) ==
    IF lang_boolean_raises(r.lang) THEN Raised("AttributeError", {})
    ELSE IF GenerateConfig_errors(r) # {} THEN Raised("ValidationError", GenerateConfig_errors(r))
    ELSE Accepted

model_validate_config(r) ==
    IF model_validate_outcome(r).ok THEN process_secrets_and_permissions(GenerateConfig_fields(r))
    ELSE NoConfig

\* GenerateConfig.to_dict
NoDict == [k |-> "none"]

to_dict(cfg) ==
    [k |-> "dict",
     driver |-> cfg.driver,
     environment |-> cfg.environment,
     private |-> cfg.private,
     lang |-> cfg.lang,
     secrets |-> cfg._processed_secrets,
     permissions |-> cfg._permissions,
     aws |-> IF cfg.aws.k # "None" THEN [k |-> "dict", region |-> cfg.aws.region]
             ELSE [k |-> "None"],
     gcloud |-> cfg.gcloud,
     validation |-> [extra_dependencies |-> cfg.validation.extra_dependencies]]

\* GenerateConfig().model_dump(mode="json", by_alias=True, exclude_none=True):
\* the declared fields as a plain mapping, keyed by alias; a field whose value
\* is None (environment, aws) is left out, the private attributes
\* _processed_secrets and _permissions are never part of it.  A None value
\* inside the lang dict is a dict value, not a field, and stays.
\* variant: the contexts list of a secret table is not written out
model_dump_secret_no_contexts(v) ==
    IF v.k = "str" THEN SecretStr(v.s)
    ELSE SecretMap(TRUE, v.secret, FALSE, <<>>, {})

model_dump_secret(v) ==
    IF v.k = "str" THEN SecretStr(v.s)
    ELSE SecretMap(TRUE, v.secret, TRUE, v.contexts, {})

model_dump_lang(v) ==
    IF v.k = "None" THEN LangScalar(None)
    ELSE LangMap(B(v.skip_validate), "skip-validate",
                 BuildMap(v.build.additional_make_args, v.build.lang_tools, {}), {})

model_dump(cfg) ==
    [driver |-> S(cfg.driver),
     environment |-> IF cfg.environment.k = "str" THEN cfg.environment ELSE EnvAbsent,
     private |-> B(cfg.private),
     lang |-> LangTable([name \in DOMAIN cfg.lang |-> model_dump_lang(cfg.lang[name])]),
     secrets |-> SecretsMap([var \in DOMAIN cfg.secrets |-> model_dump_secret(cfg.secrets[var])]),
     aws |-> IF cfg.aws.k = "None" THEN AwsAbsent ELSE AwsMap(TRUE, {}),
     gcloud |-> B(cfg.gcloud),
     validation |-> ValidationMap("extra-dependencies", cfg.validation.extra_dependencies, {}),
     extra |-> {}]

\* ------------------------------------------------ workflow.py: Params
\* the exception a step of Params.__init__ raises: its class, the path its
\* message names, and the unknown keys its message lists
NoError == [exc |-> "", path |-> <<>>, keys |-> {}]
PyError(exc, path, keys) == [exc |-> exc, path |-> path, keys |-> keys]

_require_bool(v, path) ==
    IF v.k \in {"absent", "bool"} THEN NoError ELSE PyError("TypeError", path, {})

_require_str_optional_nonempty(v, path) ==
    CASE v.k \in {"absent", "none"} -> NoError
      [] v.k # "str" -> PyError("TypeError", path, {})
      [] Strip(v.cs) = <<>> -> PyError("ValueError", path, {})
      [] OTHER -> NoError

_unknown_keys(path, keys) == PyError("ValueError", path, keys)

\* the contexts Params starts self.secrets with
PARAMS_CONTEXTS == <<"build:release", "test", "validate">>

\* for lang, enabled in raw.pop("lang", {}).items(): _require_bool(...)
Params_lang_error(l) ==
    LET bad == SelectSeq(OrderedKeys(l.m, LangOrder), LAMBDA name : l.m[name].k # "bool")
    IN  CASE l.k = "absent" -> NoError
          [] l.k # "map" -> PyError("AttributeError", <<"lang">>, {})
          [] bad # <<>> -> PyError("TypeError", <<"lang", Head(bad)>>, {})
          [] OTHER -> NoError

Params_lang(l) == [name \in DOMAIN l.m |-> [k |-> "bool", b |-> l.m[name].b]]

\* one iteration of the loop over raw.pop("secrets", {}).items()
Params_scopes(e) == IF e.hasContexts THEN e.contexts ELSE PARAMS_CONTEXTS

Params_secret_error(var, e) ==
    LET bad == SelectSeq(Params_scopes(e), LAMBDA c : c \notin Range(PARAMS_CONTEXTS))
    IN  CASE e.k = "str" -> NoError
          [] e.k # "map" -> PyError("TypeError", <<"secrets", var>>, {})
          [] ~e.hasSecret -> PyError("KeyError", <<"secret">>, {})
          [] bad # <<>> -> PyError("KeyError", <<Head(bad)>>, {})
          [] e.extra # {} -> _unknown_keys(<<"secrets", var>>, e.extra)
          [] OTHER -> NoError

Params_secrets_error(sec) ==
    LET bad == SelectSeq(OrderedKeys(sec.m, SecretOrder),
                         LAMBDA var : Params_secret_error(var, sec.m[var]) # NoError)
    IN  IF bad = <<>> THEN NoError ELSE Params_secret_error(Head(bad), sec.m[Head(bad)])

RECURSIVE Params_each_secret(_, _, _)
Params_each_secret(secrets, m, order) ==
    IF order = <<>> THEN secrets
    ELSE LET e == m[Head(order)]
         IN  Params_each_secret(
                 IF e.k = "str" THEN assign_contexts(secrets, PARAMS_CONTEXTS, Head(order), e.s)
                 ELSE assign_contexts(secrets, Params_scopes(e), Head(order), e.secret),
                 m, Tail(order))

\* if aws := raw.pop("aws", {}): an empty table is falsy
Params_aws_given(a) == a.k = "map" /\ (a.hasRegion \/ a.extra # {})

Params_aws_error(a) ==
    CASE ~Params_aws_given(a) -> NoError
      [] ~a.hasRegion -> PyError("KeyError", <<"region">>, {})
      [] a.extra # {} -> _unknown_keys(<<"aws">>, a.extra)
      [] OTHER -> NoError

Params_aws(a) == IF Params_aws_given(a) THEN ("region" :> a.region) ELSE EmptyMap

\* self.secrets after the loop, with "all" and the aws and gcloud entries
Params_secrets(sec, a, gcloud) ==
    LET base == Params_each_secret([c \in Range(PARAMS_CONTEXTS) |-> EmptyMap], sec.m,
                                   OrderedKeys(sec.m, SecretOrder))
        all_secrets == build_all(EmptyMap, base, PARAMS_CONTEXTS)
        with_aws == IF Params_aws_given(a)
                    THEN Put(Put(all_secrets, "AWS_ROLE", "AWS_ROLE"),
                             "AWS_ROLE_SESSION_NAME", "AWS_ROLE_SESSION_NAME")
                    ELSE all_secrets
    IN  [c \in Range(PARAMS_CONTEXTS) \cup {"all"} |->
            IF c = "all" THEN gcloud_secrets(with_aws, gcloud) ELSE base[c]]

\* if validation := raw.pop("validation", {}): only "extra-dependencies" is
\* popped, every other key is reported
Params_validation_unknown(v) ==
    IF v.k # "map" THEN {}
    ELSE v.extra \cup (IF v.depsKey = "extra_dependencies" THEN {v.depsKey} ELSE {})

Params_validation_error(v) ==
    IF Params_validation_unknown(v) # {}
    THEN PyError("ValueError", <<"validation">>, Params_validation_unknown(v))
    ELSE NoError

Params_validation(v) ==
    [extra_dependencies |-> IF v.k = "map" /\ v.depsKey = "extra-dependencies" THEN v.deps
                            ELSE EmptyMap]

\* the statements of Params.__init__ that can raise, in program order; each
\* pops its key from raw before it checks the value
Params_steps(r) ==
    << [key |-> "driver", err |-> NoError],
       [key |-> "environment",
        err |-> _require_str_optional_nonempty(r.environment, <<"environment">>)],
       [key |-> "private", err |-> _require_bool(r.private, <<"private">>)],
       [key |-> "lang", err |-> Params_lang_error(r.lang)],
       [key |-> "secrets", err |-> Params_secrets_error(r.secrets)],
       [key |-> "aws", err |-> Params_aws_error(r.aws)],
       [key |-> "gcloud", err |-> _require_bool(r.gcloud, <<"gcloud">>)],
       [key |-> "validation", err |-> Params_validation_error(r.validation)],
       [key |-> "extra",
        err |-> IF r.extra # {} THEN PyError("ValueError", <<>>, r.extra) ELSE NoError] >>

\* the index of the first statement that raises (0 when none does)
Params_failed_step(r) ==
    LET failing == {i \in DOMAIN Params_steps(r) : Params_steps(r)[i].err # NoError}
    IN  IF failing = {} THEN 0 ELSE CHOOSE i \in failing : \A j \in failing : i <= j

Params_error(r) ==
    IF Params_failed_step(r) = 0 THEN NoError ELSE Params_steps(r)[Params_failed_step(r)].err

\* raw as Params.__init__ leaves it: every key popped before the exception
\* is gone (the unknown root keys are never popped)
Params_raw_after(r) ==
    LET last == IF Params_failed_step(r) = 0 THEN Len(Params_steps(r)) ELSE Params_failed_step(r)
        popped == {Params_steps(r)[i].key : i \in 1..last} \ {"extra"}
    IN  [f \in DOMAIN r |-> IF f \in popped THEN EmptyRaw[f] ELSE r[f]]

NoParams == [k |-> "none"]

Params(r) ==
    IF Params_error(r) # NoError THEN NoParams
    ELSE [k |-> "Params",
          driver |-> IF r.driver.k = "absent" THEN S("(unknown)") ELSE r.driver,
          environment |-> environment_value(r.environment),
          private |-> r.private.b,
          lang |-> Params_lang(r.lang),
          secrets |-> Params_secrets(r.secrets, r.aws, r.gcloud.b),
          permissions |-> IF Params_aws(r.aws) # EmptyMap \/ r.gcloud.b
                          THEN ("id_token" :> TRUE) ELSE EmptyMap,
          aws |-> Params_aws(r.aws),
          gcloud |-> r.gcloud.b,
          validation |-> Params_validation(r.validation)]

\* Params.to_dict
Params_to_dict(p) ==
    [k |-> "dict", driver |-> p.driver, environment |-> p.environment,
     private |-> p.private, lang |-> p.lang, secrets |-> p.secrets,
     permissions |-> p.permissions, aws |-> p.aws, gcloud |-> p.gcloud,
     validation |-> p.validation]

\* ------------------------------------------------- enumerated inputs
\* upstream secret names
SecretNames == {"bar", "GITHUB_TOKEN"}

\* well-formed secret specs: bare string, table without contexts, table
\* with a contexts list of at most n valid context names
SecretEntries(n) ==
    {SecretStr(s) : s \in SecretNames}
    \cup {SecretMap(TRUE, s, FALSE, <<>>, {}) : s \in SecretNames}
    \cup {SecretMap(TRUE, s, TRUE, c, {}) :
            s \in SecretNames, c \in SeqsUpTo(WorkflowContext, n)}

SecretTables ==
    LET E1 == SecretEntries(MaxCtxLen)
        E2 == SecretEntries(MaxCtxLen - 1)
    IN  {("foo" :> e) : e \in E1}
        \cup {("AWS_ROLE" :> e) : e \in E2}
        \cup {("foo" :> e1) @@ ("AWS_ROLE" :> e2) : e1 \in E1, e2 \in E2}

\* valid configurations that vary the secrets and the auth settings
SecretsInputs ==
    {[EmptyRaw EXCEPT !.secrets = sec, !.aws = a, !.gcloud = g, !.private = p] :
        sec \in {SecretsAbsent} \cup {SecretsMap(m) : m \in SecretTables},
        a \in {AwsAbsent, AwsMap(TRUE, {})},
        g \in {Absent, B(TRUE)},
        p \in {Absent, B(TRUE)}}

BoolSamples == {B(TRUE), B(FALSE), S(""), S("yes"), I(1), I(2), None}

EnvSamples == {EnvNone, EnvInt} \cup {EnvStr(cs) : cs \in SeqsUpTo({" ", "c"}, MaxEnvLen)}

AwsSamples == {AwsNone} \cup {AwsMap(h, x) : h \in BOOLEAN, x \in SUBSET {"foo"}}

ValidationSamples ==
    {ValidationMap(dk, IF dk = "" THEN EmptyMap ELSE ("pytest" :> "^7.0"), x) :
        dk \in {"", "extra-dependencies", "extra_dependencies"}, x \in SUBSET {"bogus"}}

SecretSamples ==
    {SecretStr("buzz"), SecretInt}
    \cup {SecretMap(h, IF h THEN "buzz" ELSE "", c # <<"-">>, IF c = <<"-">> THEN <<>> ELSE c, x) :
            h \in BOOLEAN,
            c \in {<<"-">>, <<"test", "validate">>, <<"asdf">>, <<"build:test">>},
            x \in SUBSET {"foo"}}

LangEntrySamples ==
    {LangScalar(v) : v \in {B(TRUE), B(FALSE), I(1), S("yes")}}
    \cup {LangMap(sk[1], sk[2], b, x) :
            sk \in {<<Absent, "">>} \cup
                   ({B(TRUE), S("yes"), I(2)} \X {"skip-validate", "skip_validate"}),
            b \in {BuildAbsent, BuildMap(<<"example">>, <<>>, {}), BuildMap(<<>>, <<>>, {"bogus"})},
            x \in SUBSET {"bogus"}}

\* configurations with one setting changed from the empty configuration
Singles ==
    {EmptyRaw, [EmptyRaw EXCEPT !.extra = {"unknown_key"}],
     [EmptyRaw EXCEPT !.driver = S("postgresql")]}
    \cup {[EmptyRaw EXCEPT !.private = v] : v \in BoolSamples}
    \cup {[EmptyRaw EXCEPT !.gcloud = v] : v \in BoolSamples}
    \cup {[EmptyRaw EXCEPT !.environment = v] : v \in EnvSamples}
    \cup {[EmptyRaw EXCEPT !.aws = v] : v \in AwsSamples}
    \cup {[EmptyRaw EXCEPT !.validation = v] : v \in ValidationSamples}
    \cup {[EmptyRaw EXCEPT !.secrets = SecretsMap("fizz" :> e)] : e \in SecretSamples}
    \cup {[EmptyRaw EXCEPT !.lang = l] : l \in {LangNone, LangBool(TRUE), LangBool(FALSE)}}
    \cup {[EmptyRaw EXCEPT !.lang = LangTable("go" :> e)] : e \in LangEntrySamples}

\* a with every setting that b changes
Merge(a, b) == [f \in DOMAIN EmptyRaw |-> IF b[f] # EmptyRaw[f] THEN b[f] ELSE a[f]]

\* configurations with up to two settings changed, valid or not
SchemaInputs == {Merge(a, b) : a, b \in Singles}

\* configurations with a two-language table
LangInputs ==
    {[EmptyRaw EXCEPT !.lang = LangTable(("go" :> e1) @@ ("rust" :> e2))] :
        e1, e2 \in LangEntrySamples}

Inputs == SecretsInputs \cup SchemaInputs \cup LangInputs

\* ------------------------------------------------ make.py: detect_version
\* Strings are sequences of characters; the version part of a tag and the
\* short hash are kept as one element each.
StartsWith(s, p) == Len(s) >= Len(p) /\ SubSeq(s, 1, Len(p)) = p

\* s[i:] with a 0-based start index
SliceFrom(s, i) == SubSeq(s, i + 1, Len(s))

\* prefix = str(driver_root.relative_to(repo_root)); "." -> "v", else "<prefix>/v"
tag_prefix(rel) == IF rel = <<".">> THEN <<"v">> ELSE rel \o <<"/", "v">>

\* git tag -l --sort -v:refname "<prefix>*": the tags of the repository,
\* already in descending version order, that start with the prefix
git_tag_list(repoTags, prefix) == SelectSeq(repoTags, LAMBDA t : StartsWith(t, prefix))

\* check_output(...).splitlines(): the whole output is stripped before it is
\* split, so the first line loses its leading and the last line its trailing
\* whitespace
check_output_lines(lines) ==
    IF lines = <<>> THEN <<>>
    ELSE LET first == [lines EXCEPT ![1] = LStrip(@)]
         IN  [first EXCEPT ![Len(first)] = RStrip(@)]

\* variant: untracked files count as changes too
has_uncommitted_changes_any_line(dirty) == dirty # <<>>

\* any(not line.startswith("?? ") for line in dirty)
has_uncommitted_changes(dirty) ==
    \E i \in DOMAIN dirty : ~StartsWith(dirty[i], <<"?", "?", " ">>)

\* the outcome of detect_version: the version returned or the ValueError raised
Version(v) == [ok |-> TRUE, version |-> v, error |-> ""]
VersionError(e) == [ok |-> FALSE, version |-> <<>>, error |-> e]
NoResult == [ok |-> FALSE, version |-> <<>>, error |-> "not run"]

\* version = tag[len(prefix) - 1 :]
tag_version(tag, prefix) == SliceFrom(tag, Len(prefix) - 1)

\* variant: without tags the error is raised in non-strict mode too
version_from_tags_always_raises(tags, prefix, count, rev, strict) ==
    IF tags = <<>> THEN VersionError("NoTagsFound")
    ELSE IF count > 0
         THEN IF strict THEN VersionError("NotOnTag")
              ELSE Version(tag_version(tags[1], prefix) \o <<"-dev.", ToString(count), ".", rev>>)
         ELSE Version(tag_version(tags[1], prefix))

\* the if/else on `tags`: "unknown" or the newest tag, with -dev.<count>.<rev>
\* when HEAD is past the tag
version_from_tags(tags, prefix, count, rev, strict) ==
    IF tags = <<>>
    THEN IF strict THEN VersionError("NoTagsFound") ELSE Version(<<"unknown">>)
    ELSE IF count > 0
         THEN IF strict THEN VersionError("NotOnTag")
              ELSE Version(tag_version(tags[1], prefix) \o <<"-dev.", ToString(count), ".", rev>>)
         ELSE Version(tag_version(tags[1], prefix))

\* variant: uncommitted changes are an error in non-strict mode too
append_dirty_always_raises(res, dirty, strict) ==
    IF ~res.ok THEN res
    ELSE IF has_uncommitted_changes(dirty) THEN VersionError("DirtyTree")
    ELSE res

\* the git status step: -dirty, or the error in strict mode
append_dirty(res, dirty, strict) ==
    IF ~res.ok THEN res
    ELSE IF has_uncommitted_changes(dirty)
         THEN IF strict THEN VersionError("DirtyTree")
              ELSE Version(Append(res.version, "-dirty"))
    ELSE res

\* variant: the working tree is checked before the tags
detect_version_dirty_first(r, strict) ==
    IF ~r.hasManifest THEN VersionError("NoManifest")
    ELSE IF ~r.inRepo THEN VersionError("NotInRepo")
    ELSE LET prefix == tag_prefix(r.rel)
             tags == git_tag_list(r.tags, prefix)
             dirty == check_output_lines(r.status)
         IN  IF strict /\ has_uncommitted_changes(dirty) THEN VersionError("DirtyTree")
             ELSE append_dirty(version_from_tags(tags, prefix, r.count, r.rev, strict),
                               dirty, strict)

\* detect_version(driver_root, strict=...) in the repository state r
detect_version(r, strict) ==
    IF ~r.hasManifest THEN VersionError("NoManifest")
    ELSE IF ~r.inRepo THEN VersionError("NotInRepo")
    ELSE LET prefix == tag_prefix(r.rel)
             tags == git_tag_list(r.tags, prefix)
         IN  append_dirty(version_from_tags(tags, prefix, r.count, r.rev, strict),
                          check_output_lines(r.status), strict)

\* ---- repository states
\* most commits between the newest tag and HEAD
MaxCount == 2
\* most lines of `git status --porcelain`
MaxStatusLen == 2

\* driver_root relative to the repository root
DriverRoots == {<<".">>, <<"g", "o">>}

\* all tags of the repository in the order --sort -v:refname lists them
AllTags ==
    << <<"v", "1.1.0">>, <<"v", "1.0.0">>,
       <<"g", "o", "/", "v", "1.1.0">>, <<"g", "o", "/", "v", "1.0.0">> >>

TagLists == {SelectSeq(AllTags, LAMBDA t : t \in T) : T \in SUBSET Range(AllTags)}

\* lines of git status --porcelain: untracked, modified in the work tree,
\* staged
StatusLines ==
    {<<"?", "?", " ", "new.txt">>, <<" ", "M", " ", "go.mod">>, <<"M", " ", " ", "go.mod">>}

\* porcelain output lists the tracked changes before the untracked files
StatusOutputs ==
    {st \in SeqsUpTo(StatusLines, MaxStatusLen) :
        \A i \in DOMAIN st : \A j \in DOMAIN st :
            (i < j /\ StartsWith(st[i], <<"?", "?", " ">>)) => StartsWith(st[j], <<"?", "?", " ">>)}

NoRepo ==
    [rel |-> <<".">>, hasManifest |-> FALSE, inRepo |-> FALSE, tags |-> <<>>, count |-> 0,
     rev |-> "", status |-> <<>>]

Repos ==
    {[rel |-> rel, hasManifest |-> m, inRepo |-> g, tags |-> t, count |-> c,
      rev |-> "abc1234", status |-> st] :
        rel \in DriverRoots, m \in BOOLEAN, g \in BOOLEAN, t \in TagLists,
        c \in 0..MaxCount, st \in StatusOutputs}

\* ------------------------------------- package.py: normalize_driver_name
\* File names are sequences of characters.
RECURSIVE Flatten(_)
Flatten(ss) == IF ss = <<>> THEN <<>> ELSE Head(ss) \o Flatten(Tail(ss))

\* str.partition(sep)[0]: the part before the first sep, or all of s
RECURSIVE PartitionHead(_, _)
PartitionHead(s, sep) ==
    IF s = <<>> \/ Head(s) = sep THEN <<>> ELSE <<Head(s)>> \o PartitionHead(Tail(s), sep)

\* str.removeprefix(prefix)
RemovePrefix(s, prefix) == IF StartsWith(s, prefix) THEN SliceFrom(s, Len(prefix)) ELSE s

\* str.split(sep) with a one-character separator
RECURSIVE Split(_, _)
Split(s, sep) ==
    LET head == PartitionHead(s, sep)
    IN  IF Len(head) = Len(s) THEN <<s>>
        ELSE <<head>> \o Split(SliceFrom(s, Len(head) + 1), sep)

LIB == <<"l", "i", "b">>
ADBC == <<"a", "d", "b", "c">>
DRIVER == <<"d", "r", "i", "v", "e", "r">>

\* the driver name returned, or the ValueError raised
NameOk(name) == [ok |-> TRUE, name |-> name, error |-> ""]
NameError(e) == [ok |-> FALSE, name |-> <<>>, error |-> e]

\* variant: the second part is not compared with "driver"
normalize_driver_name_two_checks(filename) ==
    LET name == RemovePrefix(PartitionHead(filename, "."), LIB)
        parts == Split(name, "_")
    IN  IF Len(parts) # 3 THEN NameError("ValueError")
        ELSE IF parts[1] # ADBC THEN NameError("ValueError")
        ELSE NameOk(parts[3])

normalize_driver_name(filename) ==
    LET name == RemovePrefix(PartitionHead(filename, "."), LIB)
        parts == Split(name, "_")
    IN  IF Len(parts) # 3 THEN NameError("ValueError")
        ELSE IF parts[1] # ADBC THEN NameError("ValueError")
        ELSE IF parts[2] # DRIVER THEN NameError("ValueError")
        ELSE NameOk(parts[3])

\* ---- file names
\* most parts of an enumerated file name
MaxNameParts == 4

FOO == <<"f", "o", "o">>
NameWords == {ADBC, DRIVER, FOO}
NameSeparators == {<<"_">>, <<"-">>}
NamePrefixes == {<<>>, LIB}
NameExtensions == {<<>>, <<".", "s", "o">>, <<".", "s", "o", ".", "1">>}

\* part, separator, part, ..., part
Interleave(parts, seps) ==
    Flatten([i \in 1..(2 * Len(parts) - 1) |->
                IF i % 2 = 1 THEN parts[(i + 1) \div 2] ELSE seps[i \div 2]])

\* the file names of test_normalize_driver_name that the grid does not cover
TestFilenames ==
    {LIB \o ADBC \o <<"_">> \o DRIVER \o <<"_">> \o FOO \o <<"-", "b", "a", "r", ".", "d", "l", "l">>,
     LIB \o <<"c", "o", "l", "u", "m", "n", "a", "r", "_">> \o DRIVER \o <<"_">> \o FOO
         \o <<".", "d", "l", "l">>,
     LIB \o ADBC \o <<"_">> \o DRIVER \o <<"z", "_">> \o FOO \o <<".", "d", "l", "l">>,
     LIB \o LIB \o ADBC \o <<"_">> \o DRIVER \o <<"_">> \o FOO \o <<".", "s", "o">>,
     LIB \o ADBC \o <<"_">> \o DRIVER \o <<"_", ".", "s", "o">>,
     <<>>}

Filenames ==
    TestFilenames
    \cup {pre \o Interleave(parts, seps) \o ext :
            pre \in NamePrefixes, ext \in NameExtensions,
            parts \in UNION {[1..n -> NameWords] : n \in 1..MaxNameParts},
            seps \in [1..(MaxNameParts - 1) -> NameSeparators]}

\* ----------------------------------------- package.py: validate_manifest
\* A manifest value: absent key, a TOML string (its characters) or another
\* TOML type.
MAbsent == [k |-> "absent", v |-> <<>>]
MStr(v) == [k |-> "str", v |-> v]
MInt == [k |-> "int", v |-> <<>>]

\* the Files section: absent, or a table with its `driver` value
FilesAbsent == [k |-> "absent", drv |-> MAbsent]
FilesTable(drv) == [k |-> "table", drv |-> drv]

\* variant: version is checked before license
REQUIRED_FIELDS_version_first == <<"name", "description", "publisher", "version", "license">>

\* for field in ("name", "description", "publisher", "license", "version")
REQUIRED_FIELDS == <<"name", "description", "publisher", "license", "version">>

\* the ValueError validate_manifest raises: the field its message names and
\* what the message says about it
NoManifestError == [field |-> "", what |-> ""]
ManifestError(field, what) == [field |-> field, what |-> what]

\* the if/elif chain applied to one value
check_string(value, field) ==
    CASE value.k = "absent" -> ManifestError(field, "missing")
      [] value.k # "str" -> ManifestError(field, "must be a string")
      [] value.v = <<>> -> ManifestError(field, "must not be empty")
      [] OTHER -> NoManifestError

validate_manifest(manifest) ==
    LET bad == SelectSeq(REQUIRED_FIELDS,
                         LAMBDA f : check_string(manifest.fields[f], f) # NoManifestError)
    IN  IF bad # <<>> THEN check_string(manifest.fields[Head(bad)], Head(bad))
        ELSE IF manifest.section.k = "absent" THEN ManifestError("Files", "missing")
        ELSE check_string(manifest.section.drv, "Files.driver")

\* ---- manifests
MValues == {MAbsent, MStr(<<>>), MStr(<<"x">>), MInt}

Manifests ==
    {[fields |-> f, section |-> sec] :
        f \in [Range(REQUIRED_FIELDS) -> MValues],
        sec \in {FilesAbsent} \cup {FilesTable(d) : d \in MValues}}

\* ------------------------------- package.py: find_drivers, generate_packages
EndsWith(s, suffix) ==
    Len(s) >= Len(suffix) /\ SubSeq(s, Len(s) - Len(suffix) + 1, Len(s)) = suffix

\* str.lower() on one element of a directory name
Lower(c) ==
    CASE c = "Linux" -> "linux"
      [] c = "MacOS" -> "macos"
      [] c = "ARM64" -> "arm64"
      [] OTHER -> c

\* class Platform(enum.StrEnum), class Architecture(enum.StrEnum)
Platform == {"linux", "macos", "windows"}
Architecture == {"amd64", "arm64"}

\* what find_drivers hands back: the list, the integer 1 of its early
\* return, or the exception that left it
DriverList(drivers) == [k |-> "list", drivers |-> drivers, error |-> ""]
DriverInt == [k |-> "int", drivers |-> <<>>, error |-> ""]
DriverRaised(e) == [k |-> "raised", drivers |-> <<>>, error |-> e]

\* itertools.chain(*(input_dir.rglob(f"*.{ext}") for ext in ("dll", "dylib", "so")))
rglob_chain(entries) ==
    SelectSeq(entries, LAMBDA f : EndsWith(f, <<".", "d", "l", "l">>))
    \o SelectSeq(entries, LAMBDA f : EndsWith(f, <<".", "d", "y", "l", "i", "b">>))
    \o SelectSeq(entries, LAMBDA f : EndsWith(f, <<".", "s", "o">>))

\* the inner loop over the shared libraries of one input directory
RECURSIVE each_driver_path(_, _, _, _, _, _)
each_driver_path(acc, driver_name, dir, platform, architecture, paths) ==
    IF paths = <<>> \/ acc.k # "list" THEN acc
    ELSE LET found == normalize_driver_name(Head(paths))
             next == IF ~found.ok THEN DriverRaised("ValueError: Invalid driver name")
                     ELSE IF found.name # driver_name THEN acc
                     ELSE DriverList(Append(acc.drivers,
                                            [platform |-> platform,
                                             architecture |-> architecture,
                                             path |-> [parent |-> dir, name |-> Head(paths)]]))
         IN  each_driver_path(next, driver_name, dir, platform, architecture, Tail(paths))

\* the outer loop over input_dirs
RECURSIVE each_input_dir(_, _, _)
each_input_dir(acc, driver_name, input_dirs) ==
    IF input_dirs = <<>> \/ acc.k # "list" THEN acc
    ELSE LET input_dir == Head(input_dirs)
             parts == Split(input_dir.name, "-")
         IN  IF Len(parts) # 3 \/ parts[1] # <<"drivers">> THEN DriverInt
             ELSE IF Len(parts[2]) # 1 \/ Lower(parts[2][1]) \notin Platform
                  THEN DriverRaised("ValueError: not a valid Platform")
             ELSE IF Len(parts[3]) # 1 \/ Lower(parts[3][1]) \notin Architecture
                  THEN DriverRaised("ValueError: not a valid Architecture")
             ELSE each_input_dir(
                      each_driver_path(acc, driver_name, input_dir.name, Lower(parts[2][1]),
                                       Lower(parts[3][1]), rglob_chain(input_dir.entries)),
                      driver_name, Tail(input_dirs))

find_drivers(driver_name, input_dirs) == each_input_dir(DriverList(<<>>), driver_name, input_dirs)

\* the key of the serialized manifest in Package.files
MANIFEST == <<"M", "A", "N", "I", "F", "E", "S", "T">>

\* one value of Package.files: the bytes read from a path, or the bytes of
\* a serialized manifest
NoPath == [parent |-> <<>>, name |-> <<>>]
BinaryBytes(path) == [kind |-> "binary", path |-> path, doc |-> <<>>]
ManifestBytes(doc) == [kind |-> "manifest", path |-> NoPath, doc |-> doc]

\* tomlkit.dumps(manifest): one `key = value` line per key that is present,
\* then the [Files] table with its driver line
dumps(manifest) ==
    LET present == SelectSeq(REQUIRED_FIELDS, LAMBDA f : manifest.fields[f].k # "absent")
    IN  [i \in 1..Len(present) |-> [key |-> present[i], value |-> manifest.fields[present[i]]]]
        \o (IF manifest.section.k = "table" /\ manifest.section.drv.k # "absent"
             THEN <<[key |-> "Files.driver", value |-> manifest.section.drv]>> ELSE <<>>)

\* what generate_packages hands back: the list of packages or the exception
PackageList(packages) == [k |-> "list", packages |-> packages, error |-> ""]
PackagesRaised(e) == [k |-> "raised", packages |-> <<>>, error |-> e]
NoPackages == [k |-> "not run", packages |-> <<>>, error |-> ""]

\* the manifest and the Package of one (platform, architecture, driver_path)
with_driver_file(manifest, driver) ==
    [manifest EXCEPT !.section = FilesTable(MStr(driver.path.name))]

make_package(manifest, driver_name, version, driver) ==
    [name |-> driver_name, platform |-> driver.platform,
     architecture |-> driver.architecture, version |-> version,
     files |-> (driver.path.name :> BinaryBytes(driver.path))
               @@ (MANIFEST :> ManifestBytes(dumps(with_driver_file(manifest, driver))))]

\* variant: the manifests are serialized after the loop, when Files.driver
\* names the file of the last driver
RECURSIVE each_driver_dump_late(_, _, _, _, _)
each_driver_dump_late(acc, manifest, driver_name, version, drivers) ==
    IF drivers = <<>> \/ acc.k # "list" THEN acc
    ELSE LET invalid == validate_manifest(with_driver_file(manifest, Head(drivers)))
             last == make_package(manifest, driver_name, version, drivers[Len(drivers)])
             package == [make_package(manifest, driver_name, version, Head(drivers))
                           EXCEPT !.files[MANIFEST] = last.files[MANIFEST]]
         IN  each_driver_dump_late(
                 IF invalid # NoManifestError THEN PackagesRaised(invalid.field)
                 ELSE PackageList(Append(acc.packages, package)),
                 manifest, driver_name, version, Tail(drivers))

\* for platform, architecture, driver_path in drivers: set Files, validate,
\* serialize, append
RECURSIVE each_driver(_, _, _, _, _)
each_driver(acc, manifest, driver_name, version, drivers) ==
    IF drivers = <<>> \/ acc.k # "list" THEN acc
    ELSE LET invalid == validate_manifest(with_driver_file(manifest, Head(drivers)))
             package == make_package(manifest, driver_name, version, Head(drivers))
         IN  each_driver(
                 IF invalid # NoManifestError THEN PackagesRaised(invalid.field)
                 ELSE PackageList(Append(acc.packages, package)),
                 manifest, driver_name, version, Tail(drivers))

\* generate_packages(manifest, driver_name, driver_root, drivers, strict);
\* found is what find_drivers handed back (iterating the integer 1 raises
\* TypeError)
generate_packages(manifest, driver_name, r, drivers, isStrict) ==
    LET detected == detect_version(r, isStrict)
        m == [manifest EXCEPT !.fields["version"] = MStr(detected.version)]
    IN  IF ~detected.ok THEN PackagesRaised(detected.error)
        ELSE IF drivers.k # "list" THEN PackagesRaised("TypeError")
        ELSE each_driver(PackageList(<<>>), m, driver_name, detected.version, drivers.drivers)

\* ---- main: the archives and manifest.yaml
OUTPUT == <<"o", "u", "t">>

\* f"{package.name}_{package.platform}_{package.architecture}_{package.version}.tar.gz"
archive_filename(package) ==
    package.name \o <<"_", package.platform, "_", package.architecture, "_">>
    \o package.version \o <<".tar.gz">>

\* output = args.output / args.name / package.version / filename
archive_path(name, package) ==
    [dir |-> <<OUTPUT, name, package.version>>, file |-> archive_filename(package)]

\* f"{args.name}/{package.version}/{filename}"
archive_url(name, package) ==
    name \o <<"/">> \o package.version \o <<"/">> \o archive_filename(package)

\* one element of the "packages" list of manifest.yaml
pkginfo_entry(name, package) ==
    [platform |-> <<package.platform, "_", package.architecture>>,
     url |-> archive_url(name, package)]

\* what the loop of main leaves behind: the archives it opened for writing,
\* in order, and the entries it appended for manifest.yaml
Written(archives, entries) == [k |-> "done", archives |-> archives, entries |-> entries]
WriteRaised(archives, entries) == [k |-> "raised", archives |-> archives, entries |-> entries]

\* for package in generate_packages(...): LICENSE or RuntimeError, then the
\* archive, then the manifest.yaml entry
RECURSIVE each_package(_, _, _, _)
each_package(acc, name, license_data, packages) ==
    IF packages = <<>> \/ acc.k # "done" THEN acc
    ELSE IF license_data # "text" THEN WriteRaised(acc.archives, acc.entries)
    ELSE each_package(
             Written(Append(acc.archives, archive_path(name, Head(packages))),
                     Append(acc.entries, pkginfo_entry(name, Head(packages)))),
             name, license_data, Tail(packages))

\* ---- input directories
\* most shared-library candidates in the first input directory
MaxFiles == 2

SO == <<".", "s", "o">>

DirEntries ==
    {LIB \o ADBC \o <<"_">> \o DRIVER \o <<"_">> \o FOO \o SO,
     ADBC \o <<"_">> \o DRIVER \o <<"_">> \o FOO \o <<".", "d", "l", "l">>,
     LIB \o ADBC \o <<"_">> \o DRIVER \o <<"_", "b", "a", "r">> \o SO,
     LIB \o FOO \o SO,
     <<"R", "E", "A", "D", "M", "E">>}

DirNames ==
    {<<"drivers", "-", "linux", "-", "amd64">>,
     <<"drivers", "-", "MacOS", "-", "ARM64">>,
     <<"drivers", "-", "macos_11_0", "-", "arm64">>,
     <<"artifacts", "-", "linux", "-", "amd64">>}

InputDirs(n) == {[name |-> d, entries |-> e] : d \in DirNames, e \in SeqsUpTo(DirEntries, n)}

\* a second input directory: a valid name and at most one file
SecondDirs ==
    {[name |-> <<"drivers", "-", "macos", "-", "arm64">>, entries |-> e] :
        e \in {<<>>, <<LIB \o ADBC \o <<"_">> \o DRIVER \o <<"_">> \o FOO \o SO>>,
               <<LIB \o FOO \o SO>>}}

InputDirLists ==
    {<<d>> : d \in InputDirs(MaxFiles)}
    \cup {<<d, e>> : d \in InputDirs(MaxFiles), e \in SecondDirs}

\* manifest templates: complete, without a version, without a description
FullManifest ==
    [fields |-> [f \in Range(REQUIRED_FIELDS) |-> MStr(<<"x">>)], section |-> FilesAbsent]

ManifestTemplates ==
    {[FullManifest EXCEPT !.section = FilesTable(MStr(<<"o", "l", "d">>))],
     [FullManifest EXCEPT !.fields["version"] = MAbsent],
     [FullManifest EXCEPT !.fields["description"] = MAbsent]}

\* driver roots: on the tag with a clean tree, and one commit past it with a
\* modified file
PackageRepos ==
    {[rel |-> <<".">>, hasManifest |-> TRUE, inRepo |-> TRUE, tags |-> <<AllTags[1]>>,
      count |-> 0, rev |-> "abc1234", status |-> <<>>],
     [rel |-> <<".">>, hasManifest |-> TRUE, inRepo |-> TRUE, tags |-> <<AllTags[1]>>,
      count |-> 1, rev |-> "abc1234", status |-> << <<" ", "M", " ", "go.mod">> >>]}

\* ---------------------------------------- workflow.py: generate_workflows
WORKFLOWS == ".github/workflows"

\* what generate_workflows leaves behind: the files it wrote, in order, and
\* the code it returned or the exception that left it
WorkflowReturned(files, code) == [k |-> "returned", files |-> files, code |-> code]
WorkflowRaised(files) == [k |-> "raised", files |-> files, code |-> 0]
NoWorkflow == [k |-> "not run", files |-> <<>>, code |-> 0]

\* except FileNotFoundError: the defaults are written and 1 is returned
write_defaults == WorkflowReturned(<< <<WORKFLOWS, "generate.toml">> >>, 1)

\* variant: the pull-request workflow is written whatever params.secrets is
go_workflows_pr_always(p) ==
    IF "go" \in DOMAIN p.lang /\ p.lang["go"].b
    THEN << <<WORKFLOWS, "go_test.yaml">>, <<WORKFLOWS, "go_release.yaml">>,
            <<WORKFLOWS, "go_test_pr.yaml">> >>
    ELSE <<>>

\* if params.lang.get("go"): go_test.yaml, go_release.yaml and, if
\* params.secrets["all"], go_test_pr.yaml
go_workflows(p) ==
    IF "go" \in DOMAIN p.lang /\ p.lang["go"].b
    THEN << <<WORKFLOWS, "go_test.yaml">>, <<WORKFLOWS, "go_release.yaml">> >>
         \o (IF p.secrets["all"] # EmptyMap THEN << <<WORKFLOWS, "go_test_pr.yaml">> >>
              ELSE <<>>)
    ELSE <<>>

\* for dev in ["dev.yaml", "dev_issues.yaml", "dev_pr.yaml"]
dev_workflows ==
    << <<WORKFLOWS, "dev.yaml">>, <<WORKFLOWS, "dev_issues.yaml">>, <<WORKFLOWS, "dev_pr.yaml">> >>

\* variant: the first missing license.tpl ends the loop
RECURSIVE each_lang_stops(_, _, _, _)
each_lang_stops(acc, p, licenses, langs) ==
    IF langs = <<>> \/ acc.code # 0 THEN acc
    ELSE IF ~p.lang[Head(langs)].b THEN each_lang_stops(acc, p, licenses, Tail(langs))
    ELSE each_lang_stops(
             WorkflowReturned(Append(acc.files, <<Head(langs), "pixi.toml">>),
                              IF Head(langs) \in licenses THEN acc.code ELSE 1),
             p, licenses, Tail(langs))

\* for lang, enabled in params.lang.items(): pixi.toml, then the check of
\* license.tpl, which sets retcode and goes on
RECURSIVE each_lang(_, _, _, _)
each_lang(acc, p, licenses, langs) ==
    IF langs = <<>> THEN acc
    ELSE IF ~p.lang[Head(langs)].b THEN each_lang(acc, p, licenses, Tail(langs))
    ELSE each_lang(
             WorkflowReturned(Append(acc.files, <<Head(langs), "pixi.toml">>),
                              IF Head(langs) \in licenses THEN acc.code ELSE 1),
             p, licenses, Tail(langs))

\* generate_workflows(args): has_config says whether generate.toml exists, r
\* is what tomlkit loaded from it, licenses the languages with a license.tpl
generate_workflows(has_config, r, licenses) ==
    IF ~has_config THEN write_defaults
    ELSE IF Params_error(r) # NoError THEN WorkflowRaised(<<>>)
    ELSE each_lang(WorkflowReturned(go_workflows(Params(r)) \o dev_workflows, 0),
                   Params(r), licenses, OrderedKeys(Params(r).lang, LangOrder))

\* ---- configurations and license templates
WorkflowInputs == Inputs \cup {[EmptyRaw EXCEPT !.driver = I(5)]}

\* ------------------------------------------ changelog.py: generate_changelog
\* A path is the tuple of its characters up to the last "/" and then the file
\* name; a commit is [short_id, message, parents, delta, tree]: message is
\* the first line split as <<type, ": ", subject...>>, delta the patches of
\* the diff against the first parent, tree the names of the top-level
\* entries of the snapshot.
DOT == <<".">>
MANIFEST_TOML == <<"manifest.toml">>

\* what generate_changelog hands back
Changelog(title, body) == [k |-> "ok", title |-> title, body |-> body, error |-> ""]
ChangelogRaised(e) == [k |-> "raised", title |-> <<>>, body |-> <<>>, error |-> e]
NoChangelog == [k |-> "not run", title |-> <<>>, body |-> <<>>, error |-> ""]

\* the files of the snapshot of commit i: every path a commit up to i added
snapshot(history, i) ==
    UNION {{history[j].delta[d].new_file : d \in DOMAIN history[j].delta} : j \in 1..i}

\* str(PurePosixPath(f"{path}/manifest.toml"))
manifest_path(path) == IF path = DOT THEN MANIFEST_TOML ELSE path \o <<"/">> \o MANIFEST_TOML

\* parse_manifest: the name in <path>/manifest.toml of the tree, or
\* FileNotFoundError; the name of a manifest is modelled by its directory
parse_manifest(history, path, i) ==
    IF manifest_path(path) \in snapshot(history, i)
    THEN [ok |-> TRUE, name |-> <<"driver of ">> \o path]
    ELSE [ok |-> FALSE, name |-> <<>>]

\* title_check.matches_commit_format(pred, message): type and subject of a
\* conventional title, the category "other" for any other title
matches_commit_format(message) ==
    IF Len(message) >= 3 /\ message[2] = ": "
    THEN [category |-> message[1], subject |-> SubSeq(message, 3, Len(message))]
    ELSE [category |-> "other", subject |-> message]

\* repo.walk(end_commit.id, GIT_SORT_TIME) with start_commit hidden, on a
\* linear history: from end back to the commit after start (0 is None)
walk(history, start, end) == [i \in 1..(end - start) |-> history[end - i + 1]]

\* the inclusion test of one walked commit
include(commit, subpath) ==
    \/ subpath = DOT
    \/ /\ commit.parents # <<>>
       /\ \E d \in DOMAIN commit.delta :
             \/ StartsWith(commit.delta[d].new_file, subpath)
             \/ StartsWith(commit.delta[d].old_file, subpath)
    \/ /\ commit.parents = <<>>
       /\ \E b \in DOMAIN commit.tree : StartsWith(commit.tree[b], subpath)

\* variant: the curated sections with Bug Fixes first
CATEGORY_HEADINGS_fix_first ==
    << <<"fix", "Bug Fixes">>, <<"feat", "New Features">>,
       <<"perf", "Performance Improvements">>, <<"docs", "Documentation Updates">> >>

\* the (category, heading) pairs of the rendering loop
CATEGORY_HEADINGS ==
    << <<"feat", "New Features">>, <<"fix", "Bug Fixes">>,
       <<"perf", "Performance Improvements">>, <<"docs", "Documentation Updates">> >>

\* the lines of one curated section, nothing when changelog[category] is empty
section_lines(pair, parsed) ==
    LET entries == SelectSeq(parsed, LAMBDA e : e.category = pair[1])
    IN  IF entries = <<>> THEN <<>>
        ELSE << <<"## ", pair[2]>>, <<>> >>
             \o [i \in 1..Len(entries) |-> <<"- ">> \o entries[i].subject]
             \o << <<>> >>

\* "\n".join(lines).strip(): the empty lines at both ends are gone
RECURSIVE strip(_)
strip(lines) ==
    IF lines = <<>> THEN <<>>
    ELSE IF Head(lines) = <<>> THEN strip(Tail(lines))
    ELSE IF lines[Len(lines)] = <<>> THEN strip(SubSeq(lines, 1, Len(lines) - 1))
    ELSE lines

\* the date of the run
TODAY == "2025-01-01"

\* generate_changelog(root, subpath, version, start_ref, end_ref)
generate_changelog(history, subpath, version, start, end) ==
    LET driver == parse_manifest(history, subpath, end)
        all_commits == SelectSeq(walk(history, start, end), LAMBDA c : include(c, subpath))
        parsed == [i \in 1..Len(all_commits) |-> matches_commit_format(all_commits[i].message)]
        lines == Flatten([i \in 1..Len(CATEGORY_HEADINGS) |->
                              section_lines(CATEGORY_HEADINGS[i], parsed)])
                 \o << <<"## ", "Detailed Changelog">>, <<>> >>
                 \o [i \in 1..Len(all_commits) |->
                        <<"- ", all_commits[i].short_id, ": ">> \o all_commits[i].message]
    IN  IF ~driver.ok THEN ChangelogRaised("FileNotFoundError")
        ELSE Changelog(driver.name \o <<" ", version, " (", TODAY, ")">>, strip(lines))

\* ---- histories
\* most commits in a history
MaxCommits == 2

ShortIds == <<"c1", "c2", "c3", "c4">>
Subjects == <<"s1", "s2", "s3", "s4">>
Kinds == {"feat", "fix", "perf", "docs", "chore", "wip"}
GoDir == <<"g", "o">>
ABDir == <<"a", "/", "b">>
TouchedPaths ==
    {MANIFEST_TOML, GoDir \o <<"/">> \o MANIFEST_TOML, GoDir \o <<"2", "/", "x">>,
     ABDir \o <<"/">> \o MANIFEST_TOML}
Subpaths == {DOT, GoDir, ABDir}

\* commit i of a history: its title by kind, the one file it adds
Commit(i, kind, path) ==
    [short_id |-> ShortIds[i],
     message |-> IF kind = "wip" THEN <<"wip ", Subjects[i]>> ELSE <<kind, ": ", Subjects[i]>>,
     parents |-> IF i = 1 THEN <<>> ELSE <<i - 1>>,
     delta |-> <<[old_file |-> path, new_file |-> path]>>,
     tree |-> <<Split(path, "/")[1]>>]

\* the histories of at most max commits
Histories(max) ==
    UNION {{[i \in 1..n |-> Commit(i, k[i], f[i])] :
               k \in [1..n -> Kinds], f \in [1..n -> TouchedPaths]} : n \in 1..max}

\* ------------------------------------ rat/cli.py and copyright.py: main
\* the cached jar: absent, or a file with the chunks written so far out of
\* the chunks of the response
NoJar == [exists |-> FALSE, chunks |-> 0, total |-> 0]
Jar(chunks, total) == [exists |-> TRUE, chunks |-> chunks, total |-> total]

\* variant: the partial file stays when the stream fails
stream_failed_keeps_file(jar) == jar

\* except Exception: rat_path.unlink(missing_ok=True); raise
stream_failed(jar) == NoJar

\* A member of the git archive is [name, kind, size, header_line, approved,
\* modified]: name is <<stem, extension>>, header_line the line of the
\* copyright header the check looks for (0 when it has none), approved the
\* license-approval of the RAT report ("none" when it has no such element),
\* modified whether the "This file has been modified" header is there.
\* fnmatch.fnmatch(name, pattern) for the patterns "*<ext>" and "<name>"
fnmatch(name, pattern) == IF pattern[1] = "*" THEN name[2] = pattern[2] ELSE name = pattern

\* the lines of .rat-excludes or .rat-apache that are neither empty nor a
\* comment
load_lines(lines) == SelectSeq(lines, LAMBDA l : l # <<>> /\ l[1] # "#")

excluded(name, exclusions) == \E i \in DOMAIN exclusions : fnmatch(name, exclusions[i])

Count(seq, Test(_)) == Len(SelectSeq(seq, Test))

\* the loop over the resources of the RAT report
rat_unapproved(archive, exclusions) ==
    Count(archive, LAMBDA m : /\ m.kind = "file"
                              /\ m.approved = "false"
                              /\ ~excluded(m.name, exclusions))

\* the header is looked for in the first 20 lines
RAT_LINES == 20

missing_copyright(archive, exclusions) ==
    Count(archive, LAMBDA m : /\ m.kind = "file"
                              /\ ~(m.header_line \in 1..RAT_LINES)
                              /\ m.name \notin {<<"LICENSE", ".txt">>, <<"NOTICE", ".txt">>}
                              /\ ~excluded(m.name, exclusions))

missing_apache_header(archive, needs_apache_header) ==
    Count(archive, LAMBDA m : /\ m.kind = "file"
                              /\ m.name \in needs_apache_header
                              /\ ~m.modified)

should_not_have_apache_header(archive, needs_apache_header) ==
    Count(archive, LAMBDA m : /\ m.kind = "file"
                              /\ m.name \notin needs_apache_header
                              /\ m.modified)

\* rat/cli.py main from the exclusion file on: the value it returns
rat_check(archive, rat_excludes, rat_apache) ==
    rat_unapproved(archive, load_lines(rat_excludes))
    + missing_copyright(archive, load_lines(rat_excludes))
    + missing_apache_header(archive, Range(load_lines(rat_apache)))
    + should_not_have_apache_header(archive, Range(load_lines(rat_apache)))

\* copyright.py: the header is looked for in the first two lines of every
\* non-empty file that is not excluded
COPYRIGHT_LINES == 2

\* variant: one more for every file without the header
copyright_check_counting(archive, rat_excludes) ==
    Count(archive, LAMBDA m : /\ m.size # 0
                              /\ m.kind = "file"
                              /\ ~excluded(m.name, load_lines(rat_excludes))
                              /\ ~(m.header_line \in 1..COPYRIGHT_LINES))

\* copyright.py main: exitcode = 1 at every file without the header
copyright_check(archive, rat_excludes) ==
    IF \E i \in DOMAIN archive :
          /\ archive[i].size # 0
          /\ archive[i].kind = "file"
          /\ ~excluded(archive[i].name, load_lines(rat_excludes))
          /\ ~(archive[i].header_line \in 1..COPYRIGHT_LINES)
    THEN 1 ELSE 0

\* ---- archives
\* most members of an archive
MaxMembers == 2
\* most runs of the license check, most chunks of a download
MaxRuns == 2
MaxChunks == 2

Member(name, kind, size, header_line, approved, modified) ==
    [name |-> name, kind |-> kind, size |-> size, header_line |-> header_line,
     approved |-> approved, modified |-> modified]

Members ==
    {Member(<<"a", ".py">>, "file", 1, 1, "true", FALSE),
     Member(<<"a", ".py">>, "file", 1, 0, "false", FALSE),
     Member(<<"a", ".py">>, "file", 1, 3, "true", FALSE),
     Member(<<"a", ".py">>, "file", 1, 21, "true", FALSE),
     Member(<<"a", ".py">>, "file", 1, 1, "true", TRUE),
     Member(<<"b", ".json">>, "file", 1, 0, "false", FALSE),
     Member(<<"b", ".json">>, "file", 1, 0, "none", TRUE),
     Member(<<"LICENSE", ".txt">>, "file", 1, 0, "true", FALSE),
     Member(<<"c", ".py">>, "file", 0, 0, "false", FALSE),
     Member(<<"d", "">>, "dir", 0, 0, "none", FALSE)}

Archives ==
    {a \in SeqsUpTo(Members, MaxMembers) :
        \A i, j \in DOMAIN a : a[i].name = a[j].name => i = j}

RatExcludes == {<<>>, << <<"#", "data">>, <<>>, <<"*", ".json">> >>, << <<"a", ".py">> >>}
RatApache == {<<>>, << <<"a", ".py">> >>}

\* --------------------------------------------------- release.py: main
\* A tag is the tuple of the characters of its prefix and then the text of
\* its version: <<"v", "1.10.0">>, <<"g", "o", "/", "v", "1.9.0">>; a
\* reference is <<"refs/tags/">> or <<"refs/heads/">> and then the name.
\* packaging.version.parse(text): the release numbers, with or without a
\* leading "v"
parse(text) ==
    LET body == IF text # <<>> /\ Head(text) = "v" THEN Tail(text) ELSE text
    IN  CASE body = <<"1.2.0">> -> <<1, 2, 0>>
          [] body = <<"1.9.0">> -> <<1, 9, 0>>
          [] body = <<"1.10.0">> -> <<1, 10, 0>>
          [] OTHER -> <<>>

\* Version.__lt__ on release numbers of one length
RECURSIVE version_lt(_, _)
version_lt(a, b) ==
    IF a = <<>> \/ b = <<>> THEN FALSE
    ELSE IF Head(a) # Head(b) THEN Head(a) < Head(b)
    ELSE version_lt(Tail(a), Tail(b))

\* subdir, version and prefix of the tag to release
release_subdir(tag) == IF "/" \in Range(tag) THEN PartitionHead(tag, "/") ELSE DOT
release_version(tag) ==
    IF "/" \in Range(tag) THEN parse(SliceFrom(tag, Len(PartitionHead(tag, "/")) + 1))
    ELSE parse(tag)
release_prefix(tag) ==
    IF "/" \in Range(tag) THEN PartitionHead(tag, "/") \o <<"/", "v">> ELSE <<"v">>

\* for ref in repo.references: the name `version` is assigned again at every
\* matching tag
RECURSIVE each_ref(_, _, _)
each_ref(acc, refs, prefix) ==
    IF refs = <<>> THEN acc
    ELSE IF ~StartsWith(Head(refs), <<"refs/tags/">> \o prefix)
         THEN each_ref(acc, Tail(refs), prefix)
    ELSE LET tag == Tail(Head(refs))
             found == parse(SliceFrom(tag, Len(prefix)))
         IN  each_ref([tags |-> Append(acc.tags, [tag |-> tag, version |-> found]),
                       version |-> found],
                      Tail(refs), prefix)

\* tags.sort(key=...), the filter on v[1] < version, and tags[-1][0]; None
\* when nothing is left
NoTag == <<>>
previous_tag(tags, version) ==
    LET lower == SelectSeq(tags, LAMBDA t : version_lt(t.version, version))
        last == CHOOSE i \in DOMAIN lower :
                    \A j \in DOMAIN lower :
                        /\ ~version_lt(lower[i].version, lower[j].version)
                        /\ (lower[j].version = lower[i].version => j <= i)
    IN  IF lower = <<>> THEN NoTag ELSE lower[last].tag

\* the arguments of the call changelog.generate_changelog(root, subdir,
\* version, previous_tag, args.tag)
NoCall == [subdir |-> <<>>, version |-> <<>>, start_ref |-> NoTag, end_ref |-> <<>>]
release_call(refs, tag) ==
    LET seen == each_ref([tags |-> <<>>, version |-> release_version(tag)], refs,
                         release_prefix(tag))
    IN  [subdir |-> release_subdir(tag), version |-> seen.version,
         start_ref |-> previous_tag(seen.tags, seen.version), end_ref |-> tag]

\* ---- repositories
\* most references of a repository
MaxRefs == 3

VersionTexts == {"1.2.0", "1.9.0", "1.10.0"}
ReleaseTags == {p \o <<v>> : p \in {<<"v">>, GoDir \o <<"/", "v">>}, v \in VersionTexts}
References ==
    {<<"refs/tags/">> \o t : t \in ReleaseTags} \cup {<<"refs/heads/", "v", "n", "e", "x", "t">>}
ReferenceLists ==
    {r \in SeqsUpTo(References, MaxRefs) : \A i, j \in DOMAIN r : r[i] = r[j] => i = j}

\* ------------------------------------------------------------- the state
\* toml:   the configuration as read from generate.toml
\* raw:    the mapping handed to the validators (Params pops from it)
\* pc:     "loaded", then "validated"/"dumped" (GenerateConfig) or
\*         "params"/"params_dumped" (Params)
\* gc, config:    outcome of GenerateConfig.model_validate and the instance
\* perr, params:  exception raised by Params(raw) and the instance
\* dumped: the result of to_dict()
\* serialized, gc2, reparsed: the result of model_dump(), and the outcome and
\*         instance of validating that result again
VARIABLES toml, raw, pc, gc, config, perr, params, dumped, serialized, gc2, reparsed

\* repo:   the driver directory and its git repository, as detect_version
\*         observes them
\* strict: the strict argument
\* vpc:    "start", then "done" once detect_version has returned or raised
\* vresult: what it returned or raised
VARIABLES repo, strict, vpc, vresult

\* filename:    the argument of normalize_driver_name
\* name_result: what it returned or raised ("not run" before the call)
VARIABLES filename, name_result

\* manifest:       the argument of validate_manifest
\* manifest_error: the error it raised ("not run" before the call)
VARIABLES manifest, manifest_error

\* input_dirs: the input directories with the files found in them
\* template:   the manifest template
\* ppc:        "start", "found" (after find_drivers), "licensed", "packaged",
\*             "written" (main returned 0), "aborted" / "failed" (an
\*             exception left main)
\* found:      what find_drivers handed back
\* packages:   what generate_packages handed back
\* license_data: "None" (no license.tpl), "text" (the go-licenses report)
\* archives:   the archive paths opened for writing, in order
\* bucket:     manifest.yaml: whether it was written, and its pkginfo list
VARIABLES input_dirs, template, ppc, found, packages, license_data, archives, bucket

\* history:   the commits of the repository, oldest first
\* subpath:   the driver directory, "." for the repository root
\* start_ref: the index of the start commit, 0 for None
\* cpc:       "start", "done"
\* changelog: what generate_changelog handed back
VARIABLES history, subpath, start_ref, cpc, changelog

\* has_config:  whether .github/workflows/generate.toml exists
\* license_tpl: the languages whose directory has a license.tpl
\* wpc:         "start", "done"
\* workflow:    what generate_workflows left behind
VARIABLES has_config, license_tpl, wpc, workflow

\* archive:      the members of the git archive of the repository
\* rat_excludes: the lines of .rat-excludes (<<>> when there is none)
\* rat_apache:   the lines of .rat-apache
\* jar:          the cached apache-rat-<version>.jar
\* rpc:          "idle" between runs, "get", "open", "stream", "check"
\* runs:         the runs started
\* rat_result:   how the last run ended: the value returned or the error
\* copyright_result: the value copyright.py returned, -1 before it ran
VARIABLES archive, rat_excludes, rat_apache, jar, rpc, runs, rat_result, copyright_result

\* references: repo.references, in the order the repository lists them
\* release_tag: the tag to release
\* relpc:      "start", "done"
\* call:       the arguments generate_changelog was called with
VARIABLES references, release_tag, relpc, call

configVars == <<toml, raw, pc, gc, config, perr, params, dumped, serialized, gc2, reparsed>>
versionVars == <<repo, strict, vpc, vresult>>

nameVars == <<filename, name_result>>
manifestVars == <<manifest, manifest_error>>
packageVars == <<input_dirs, template, ppc, found, packages, license_data, archives, bucket>>
changelogVars == <<history, subpath, start_ref, cpc, changelog>>
workflowVars == <<has_config, license_tpl, wpc, workflow>>
ratVars == <<archive, rat_excludes, rat_apache, jar, rpc, runs, rat_result, copyright_result>>
releaseVars == <<references, release_tag, relpc, call>>

\* the parts of the state a specification does not exercise
ConfigIdle ==
    /\ toml = EmptyRaw
    /\ raw = EmptyRaw
    /\ pc = "idle"
    /\ gc = NotRun
    /\ config = NoConfig
    /\ perr = NoError
    /\ params = NoParams
    /\ dumped = NoDict
    /\ serialized = EmptyRaw
    /\ gc2 = NotRun
    /\ reparsed = NoConfig

VersionIdle ==
    /\ repo = NoRepo
    /\ strict = FALSE
    /\ vpc = "idle"
    /\ vresult = NoResult

NameIdle ==
    /\ filename = <<>>
    /\ name_result = NameError("idle")

ManifestIdle ==
    /\ manifest = FullManifest
    /\ manifest_error = ManifestError("", "idle")

\* manifest.yaml before main wrote it
NoBucket == [written |-> FALSE, pkginfo |-> <<>>]

PackageIdle ==
    /\ input_dirs = <<>>
    /\ template = FullManifest
    /\ ppc = "idle"
    /\ found = DriverList(<<>>)
    /\ packages = NoPackages
    /\ license_data = "None"
    /\ archives = <<>>
    /\ bucket = NoBucket

ChangelogIdle ==
    /\ history = <<>>
    /\ subpath = DOT
    /\ start_ref = 0
    /\ cpc = "idle"
    /\ changelog = NoChangelog

WorkflowIdle ==
    /\ has_config = TRUE
    /\ license_tpl = {}
    /\ wpc = "idle"
    /\ workflow = NoWorkflow

\* how a run of the license check ended
NoRun == [k |-> "not run", code |-> 0, downloaded |-> FALSE]
RatReturned(code, downloaded) == [k |-> "returned", code |-> code, downloaded |-> downloaded]
RatRaised(e) == [k |-> e, code |-> 0, downloaded |-> FALSE]

RatIdle ==
    /\ archive = <<>>
    /\ rat_excludes = <<>>
    /\ rat_apache = <<>>
    /\ jar = NoJar
    /\ rpc = "off"
    /\ runs = 0
    /\ rat_result = NoRun
    /\ copyright_result = -1

ReleaseIdle ==
    /\ references = <<>>
    /\ release_tag = <<>>
    /\ relpc = "idle"
    /\ call = NoCall

\* ---- the rest of the state, for each specification
vars == <<configVars, versionVars, nameVars, manifestVars, packageVars, changelogVars, workflowVars, ratVars, releaseVars>>

ConfigRest == <<versionVars, nameVars, manifestVars, packageVars, changelogVars, workflowVars, ratVars, releaseVars>>
ConfigRestIdle ==
    /\ VersionIdle
    /\ NameIdle
    /\ ManifestIdle
    /\ PackageIdle
    /\ ChangelogIdle
    /\ WorkflowIdle
    /\ RatIdle
    /\ ReleaseIdle

VersionRest == <<configVars, nameVars, manifestVars, packageVars, changelogVars, workflowVars, ratVars, releaseVars>>
VersionRestIdle ==
    /\ ConfigIdle
    /\ NameIdle
    /\ ManifestIdle
    /\ PackageIdle
    /\ ChangelogIdle
    /\ WorkflowIdle
    /\ RatIdle
    /\ ReleaseIdle

NameRest == <<configVars, versionVars, manifestVars, packageVars, changelogVars, workflowVars, ratVars, releaseVars>>
NameRestIdle ==
    /\ ConfigIdle
    /\ VersionIdle
    /\ ManifestIdle
    /\ PackageIdle
    /\ ChangelogIdle
    /\ WorkflowIdle
    /\ RatIdle
    /\ ReleaseIdle

ManifestRest == <<configVars, versionVars, nameVars, packageVars, changelogVars, workflowVars, ratVars, releaseVars>>
ManifestRestIdle ==
    /\ ConfigIdle
    /\ VersionIdle
    /\ NameIdle
    /\ PackageIdle
    /\ ChangelogIdle
    /\ WorkflowIdle
    /\ RatIdle
    /\ ReleaseIdle

PackageRest == <<configVars, nameVars, manifestVars, changelogVars, workflowVars, ratVars, releaseVars>>
PackageRestIdle ==
    /\ ConfigIdle
    /\ NameIdle
    /\ ManifestIdle
    /\ ChangelogIdle
    /\ WorkflowIdle
    /\ RatIdle
    /\ ReleaseIdle

ChangelogRest == <<configVars, versionVars, nameVars, manifestVars, packageVars, workflowVars, ratVars, releaseVars>>
ChangelogRestIdle ==
    /\ ConfigIdle
    /\ VersionIdle
    /\ NameIdle
    /\ ManifestIdle
    /\ PackageIdle
    /\ WorkflowIdle
    /\ RatIdle
    /\ ReleaseIdle

WorkflowRest == <<versionVars, nameVars, manifestVars, packageVars, changelogVars, ratVars, releaseVars>>
WorkflowRestIdle ==
    /\ VersionIdle
    /\ NameIdle
    /\ ManifestIdle
    /\ PackageIdle
    /\ ChangelogIdle
    /\ RatIdle
    /\ ReleaseIdle

RatRest == <<configVars, versionVars, nameVars, manifestVars, packageVars, changelogVars, workflowVars, releaseVars>>
RatRestIdle ==
    /\ ConfigIdle
    /\ VersionIdle
    /\ NameIdle
    /\ ManifestIdle
    /\ PackageIdle
    /\ ChangelogIdle
    /\ WorkflowIdle
    /\ ReleaseIdle

ReleaseRest == <<configVars, versionVars, nameVars, manifestVars, packageVars, changelogVars, workflowVars, ratVars>>
ReleaseRestIdle ==
    /\ ConfigIdle
    /\ VersionIdle
    /\ NameIdle
    /\ ManifestIdle
    /\ PackageIdle
    /\ ChangelogIdle
    /\ WorkflowIdle
    /\ RatIdle

Init ==
    /\ toml \in Inputs
    /\ raw = toml
    /\ pc = "loaded"
    /\ gc = NotRun
    /\ config = NoConfig
    /\ perr = NoError
    /\ params = NoParams
    /\ dumped = NoDict
    /\ serialized = EmptyRaw
    /\ gc2 = NotRun
    /\ reparsed = NoConfig
    /\ ConfigRestIdle

\* config = GenerateConfig.model_validate(raw)
ModelValidate ==
    /\ pc = "loaded"
    /\ gc' = model_validate_outcome(raw)
    /\ config' = model_validate_config(raw)
    /\ pc' = "validated"
    /\ UNCHANGED <<toml, raw, perr, params, dumped, serialized, gc2, reparsed>>
    /\ UNCHANGED ConfigRest

\* config.to_dict()
ToDict ==
    /\ pc = "validated"
    /\ gc.ok
    /\ dumped' = to_dict(config)
    /\ pc' = "dumped"
    /\ UNCHANGED <<toml, raw, gc, config, perr, params, serialized, gc2, reparsed>>
    /\ UNCHANGED ConfigRest

\* params = Params(raw), as generate_workflows calls it
ParamsInit ==
    /\ pc = "loaded"
    /\ perr' = Params_error(raw)
    /\ params' = Params(raw)
    /\ raw' = Params_raw_after(raw)
    /\ pc' = "params"
    /\ UNCHANGED <<toml, gc, config, dumped, serialized, gc2, reparsed>>
    /\ UNCHANGED ConfigRest

\* params.to_dict()
ParamsToDict ==
    /\ pc = "params"
    /\ perr = NoError
    /\ dumped' = Params_to_dict(params)
    /\ pc' = "params_dumped"
    /\ UNCHANGED <<toml, raw, gc, config, perr, params, serialized, gc2, reparsed>>
    /\ UNCHANGED ConfigRest

\* config.model_dump(mode="json", by_alias=True, exclude_none=True)
ModelDump ==
    /\ pc = "validated"
    /\ gc.ok
    /\ serialized' = model_dump(config)
    /\ pc' = "serialized"
    /\ UNCHANGED <<toml, raw, gc, config, perr, params, dumped, gc2, reparsed>>
    /\ UNCHANGED ConfigRest

\* GenerateConfig.model_validate(serialized)
Revalidate ==
    /\ pc = "serialized"
    /\ gc2' = model_validate_outcome(serialized)
    /\ reparsed' = model_validate_config(serialized)
    /\ pc' = "revalidated"
    /\ UNCHANGED <<toml, raw, gc, config, perr, params, dumped, serialized>>
    /\ UNCHANGED ConfigRest

Next ==
    \/ ModelValidate
    \/ ToDict
    \/ ParamsInit
    \/ ParamsToDict
    \/ ModelDump
    \/ Revalidate

Spec == Init /\ [][Next]_vars

\* ---- version detection
VersionInit ==
    /\ VersionRestIdle
    /\ repo \in Repos
    /\ strict \in BOOLEAN
    /\ vpc = "start"
    /\ vresult = NoResult

\* version = detect_version(driver_root, strict=strict)
DetectVersion ==
    /\ vpc = "start"
    /\ vresult' = detect_version(repo, strict)
    /\ vpc' = "done"
    /\ UNCHANGED <<repo, strict>>
    /\ UNCHANGED VersionRest

VersionNext == DetectVersion

VersionSpec == VersionInit /\ [][VersionNext]_vars

\* ---- driver names
NameInit ==
    /\ NameRestIdle
    /\ filename \in Filenames
    /\ name_result = NameError("not run")

\* normalize_driver_name(filename)
NormalizeDriverName ==
    /\ name_result = NameError("not run")
    /\ name_result' = normalize_driver_name(filename)
    /\ UNCHANGED filename
    /\ UNCHANGED NameRest

NameNext == NormalizeDriverName

NameSpec == NameInit /\ [][NameNext]_vars

\* ---- manifest validation
ManifestInit ==
    /\ ManifestRestIdle
    /\ manifest \in Manifests
    /\ manifest_error = ManifestError("", "not run")

\* validate_manifest(manifest)
ValidateManifest ==
    /\ manifest_error = ManifestError("", "not run")
    /\ manifest_error' = validate_manifest(manifest)
    /\ UNCHANGED manifest
    /\ UNCHANGED ManifestRest

ManifestNext == ValidateManifest

ManifestSpec == ManifestInit /\ [][ManifestNext]_vars

\* ---- packaging: main() of package.py for the driver named foo
PackageInit ==
    /\ PackageRestIdle
    /\ repo \in PackageRepos
    /\ strict \in BOOLEAN
    /\ vpc = "idle"
    /\ vresult = NoResult
    /\ input_dirs \in InputDirLists
    /\ template \in ManifestTemplates
    /\ ppc = "start"
    /\ found = DriverList(<<>>)
    /\ packages = NoPackages
    /\ license_data = "None"
    /\ archives = <<>>
    /\ bucket = NoBucket

\* drivers = find_drivers(args.name, args.input); an exception ends main
FindDrivers ==
    /\ ppc = "start"
    /\ found' = find_drivers(FOO, input_dirs)
    /\ ppc' = IF find_drivers(FOO, input_dirs).k = "raised" THEN "aborted" ELSE "found"
    /\ UNCHANGED <<input_dirs, template, packages, license_data, archives, bucket>>
    /\ UNCHANGED <<versionVars, PackageRest>>

\* the license step: no license.tpl leaves license_data None, a go-licenses
\* report sets it, a failing go-licenses ends main
GenerateLicense ==
    /\ ppc = "found"
    /\ \E outcome \in {"None", "text", "failed"} :
          /\ license_data' = IF outcome = "text" THEN "text" ELSE "None"
          /\ ppc' = IF outcome = "failed" THEN "failed" ELSE "licensed"
    /\ UNCHANGED <<input_dirs, template, found, packages, archives, bucket>>
    /\ UNCHANGED <<versionVars, PackageRest>>

\* generate_packages(driver_manifest, args.name, args.root, drivers,
\* strict=args.release)
GeneratePackages ==
    /\ ppc = "licensed"
    /\ packages' = generate_packages(template, FOO, repo, found, strict)
    /\ ppc' = "packaged"
    /\ UNCHANGED <<input_dirs, template, found, license_data, archives, bucket>>
    /\ UNCHANGED <<versionVars, PackageRest>>

\* the loop over the packages and the dump of manifest.yaml; pkginfo has one
\* element per version, and every package of a run has the same version
WriteArchives ==
    /\ ppc = "packaged"
    /\ packages.k = "list"
    /\ LET done == each_package(Written(<<>>, <<>>), FOO, license_data, packages.packages)
       IN  /\ archives' = done.archives
           /\ bucket' = IF done.k = "raised" THEN bucket
                         ELSE [written |-> TRUE,
                               pkginfo |-> IF done.entries = <<>> THEN <<>>
                                           ELSE <<[version |-> packages.packages[1].version,
                                                   packages |-> done.entries]>>]
           /\ ppc' = IF done.k = "raised" THEN "failed" ELSE "written"
    /\ UNCHANGED <<input_dirs, template, found, packages, license_data>>
    /\ UNCHANGED <<versionVars, PackageRest>>

PackageNext == FindDrivers \/ GenerateLicense \/ GeneratePackages \/ WriteArchives

PackageSpec == PackageInit /\ [][PackageNext]_vars

\* ---- generate_changelog on a history, up to its last commit
ChangelogInit ==
    /\ ChangelogRestIdle
    /\ history \in Histories(MaxCommits)
    /\ subpath \in Subpaths
    /\ start_ref \in 0..1
    /\ cpc = "start"
    /\ changelog = NoChangelog

GenerateChangelog ==
    /\ cpc = "start"
    /\ changelog' = generate_changelog(history, subpath, "1.0.0", start_ref, Len(history))
    /\ cpc' = "done"
    /\ UNCHANGED <<history, subpath, start_ref>>
    /\ UNCHANGED ChangelogRest

ChangelogNext == GenerateChangelog

ChangelogSpec == ChangelogInit /\ [][ChangelogNext]_vars

\* ---- generate_workflows on a repository
WorkflowInit ==
    /\ WorkflowRestIdle
    /\ has_config \in BOOLEAN
    /\ toml \in (IF has_config THEN WorkflowInputs ELSE {EmptyRaw})
    /\ raw = toml
    /\ license_tpl \in SUBSET (DOMAIN toml.lang.m)
    /\ pc = "idle"
    /\ gc = NotRun
    /\ config = NoConfig
    /\ perr = NoError
    /\ params = NoParams
    /\ dumped = NoDict
    /\ serialized = EmptyRaw
    /\ gc2 = NotRun
    /\ reparsed = NoConfig
    /\ wpc = "start"
    /\ workflow = NoWorkflow

\* params = Params(params) takes the keys out of the loaded mapping
GenerateWorkflows ==
    /\ wpc = "start"
    /\ workflow' = generate_workflows(has_config, raw, license_tpl)
    /\ perr' = IF has_config THEN Params_error(raw) ELSE perr
    /\ params' = IF has_config THEN Params(raw) ELSE params
    /\ raw' = IF has_config THEN Params_raw_after(raw) ELSE raw
    /\ wpc' = "done"
    /\ UNCHANGED <<toml, pc, gc, config, dumped, serialized, gc2, reparsed>>
    /\ UNCHANGED <<has_config, license_tpl>>
    /\ UNCHANGED WorkflowRest

WorkflowNext == GenerateWorkflows

WorkflowSpec == WorkflowInit /\ [][WorkflowNext]_vars

\* ---- runs of the license check (rat/cli.py main), one after the other, and
\* a run of the copyright check (copyright.py main)
RatInit ==
    /\ RatRestIdle
    /\ archive \in Archives
    /\ rat_excludes \in RatExcludes
    /\ rat_apache \in RatApache
    /\ jar = NoJar
    /\ rpc = "idle"
    /\ runs = 0
    /\ rat_result = NoRun
    /\ copyright_result = -1

\* if not rat_path.is_file(): the download is skipped when the file is there
StartRun ==
    /\ rpc = "idle"
    /\ runs < MaxRuns
    /\ runs' = runs + 1
    /\ rpc' = IF jar.exists THEN "check" ELSE "get"
    /\ rat_result' = NoRun
    /\ UNCHANGED <<archive, rat_excludes, rat_apache, jar, copyright_result>>
    /\ UNCHANGED RatRest

\* requests.get(url, stream=True) and response.raise_for_status(): an error
\* leaves main before the file is opened
Get ==
    /\ rpc = "get"
    /\ \E outcome \in {"ok", "ConnectionError", "HTTPError"} :
          /\ rpc' = IF outcome = "ok" THEN "open" ELSE "idle"
          /\ rat_result' = IF outcome = "ok" THEN rat_result ELSE RatRaised(outcome)
    /\ UNCHANGED <<archive, rat_excludes, rat_apache, jar, runs, copyright_result>>
    /\ UNCHANGED RatRest

\* with rat_path.open("wb") as sink: the file is there and empty
Open ==
    /\ rpc = "open"
    /\ \E total \in 1..MaxChunks : jar' = Jar(0, total)
    /\ rpc' = "stream"
    /\ UNCHANGED <<archive, rat_excludes, rat_apache, runs, rat_result, copyright_result>>
    /\ UNCHANGED RatRest

\* sink.write(chunk) for the next chunk of the response
WriteChunk ==
    /\ rpc = "stream"
    /\ jar.chunks < jar.total
    /\ jar' = Jar(jar.chunks + 1, jar.total)
    /\ UNCHANGED <<archive, rat_excludes, rat_apache, rpc, runs, rat_result, copyright_result>>
    /\ UNCHANGED RatRest

\* iter_content raises: the file is removed and the error goes on
StreamFails ==
    /\ rpc = "stream"
    /\ jar.chunks < jar.total
    /\ jar' = stream_failed(jar)
    /\ rpc' = "idle"
    /\ rat_result' = RatRaised("ChunkedEncodingError")
    /\ UNCHANGED <<archive, rat_excludes, rat_apache, runs, copyright_result>>
    /\ UNCHANGED RatRest

\* the response is exhausted and the file closed
StreamEnds ==
    /\ rpc = "stream"
    /\ jar.chunks = jar.total
    /\ rpc' = "check"
    /\ rat_result' = [NoRun EXCEPT !.downloaded = TRUE]
    /\ UNCHANGED <<archive, rat_excludes, rat_apache, jar, runs, copyright_result>>
    /\ UNCHANGED RatRest

\* the archive is checked with the jar and main returns
RatCheck ==
    /\ rpc = "check"
    /\ rat_result' = RatReturned(rat_check(archive, rat_excludes, rat_apache),
                                  rat_result.downloaded)
    /\ rpc' = "idle"
    /\ UNCHANGED <<archive, rat_excludes, rat_apache, jar, runs, copyright_result>>
    /\ UNCHANGED RatRest

\* copyright.py main on the same repository, at any time
CopyrightCheck ==
    /\ rpc # "off"
    /\ copyright_result = -1
    /\ copyright_result' = copyright_check(archive, rat_excludes)
    /\ UNCHANGED <<archive, rat_excludes, rat_apache, jar, rpc, runs, rat_result>>
    /\ UNCHANGED RatRest

RatNext ==
    \/ StartRun \/ Get \/ Open \/ WriteChunk \/ StreamFails \/ StreamEnds \/ RatCheck
    \/ CopyrightCheck

RatSpec == RatInit /\ [][RatNext]_vars

\* ---- release.py main on a repository that has the tag to release
ReleaseInit ==
    /\ ReleaseRestIdle
    /\ references \in ReferenceLists
    /\ release_tag \in {t \in ReleaseTags : <<"refs/tags/">> \o t \in Range(references)}
    /\ relpc = "start"
    /\ call = NoCall

Release ==
    /\ relpc = "start"
    /\ call' = release_call(references, release_tag)
    /\ relpc' = "done"
    /\ UNCHANGED <<references, release_tag>>
    /\ UNCHANGED ReleaseRest

ReleaseNext == Release

ReleaseSpec == ReleaseInit /\ [][ReleaseNext]_vars

\* ----------------------------------------------------------- properties
\* GenerateConfig accepted the configuration / Params accepted it
GCAccepted == pc \in {"validated", "dumped", "serialized", "revalidated"} /\ gc.ok
ParamsAccepted == pc \in {"params", "params_dumped"} /\ perr = NoError

\* the declared secrets of the configuration as read
Declared == toml.secrets.m

\* the fixed names an enabled aws, gcloud or private setting writes to "all"
FixedNames(cfg) ==
    (IF cfg.aws.k # "None" THEN {"AWS_ROLE", "AWS_ROLE_SESSION_NAME"} ELSE {})
    \cup (IF cfg.gcloud THEN {"GCLOUD_SERVICE_ACCOUNT", "GCLOUD_WORKLOAD_IDENTITY_PROVIDER"}
          ELSE {})
    \cup (IF cfg.private THEN {"COLUMNAR_CLOUD_API_TOKEN"} ELSE {})

\* what "all" holds for a variable whose base contexts hold `value`
AllHolds(cfg, var, value) ==
    LET all_secrets == cfg._processed_secrets["all"]
    IN  IF var \in FixedNames(cfg) THEN var \in DOMAIN all_secrets /\ all_secrets[var] = var
        ELSE IF value = "GITHUB_TOKEN" THEN var \notin DOMAIN all_secrets
        ELSE var \in DOMAIN all_secrets /\ all_secrets[var] = value

C2_AsStated ==
    GCAccepted =>
        \A var \in DOMAIN Declared :
            (Declared[var].k = "map" /\ Declared[var].hasContexts) =>
                /\ \A c \in WorkflowContext :
                        var \in DOMAIN config._processed_secrets[c]
                            <=> c \in Range(Declared[var].contexts)
                /\ var \in DOMAIN config._processed_secrets["all"]

\* C2 (amended): a secret declared as a table with an explicit contexts
\* list is, with its secret name, in exactly the listed base contexts; it
\* is in "all" when the list is not empty and the name is not GITHUB_TOKEN,
\* and it is absent from "all" otherwise (a variable named like an enabled
\* fixed auth secret holds the fixed name in "all" in every case).
C2_ExplicitContextsOnly ==
    GCAccepted =>
        \A var \in DOMAIN Declared :
            (Declared[var].k = "map" /\ Declared[var].hasContexts) =>
                /\ \A c \in WorkflowContext :
                        IF c \in Range(Declared[var].contexts)
                        THEN /\ var \in DOMAIN config._processed_secrets[c]
                             /\ config._processed_secrets[c][var] = Declared[var].secret
                        ELSE var \notin DOMAIN config._processed_secrets[c]
                /\ IF Declared[var].contexts = <<>> /\ var \notin FixedNames(config)
                   THEN var \notin DOMAIN config._processed_secrets["all"]
                   ELSE AllHolds(config, var, Declared[var].secret)

\* foo listed for build:release and test only, next to a secret with an
\* empty contexts list
C2_Witness ==
    /\ GCAccepted
    /\ DOMAIN Declared = {"foo", "AWS_ROLE"}
    /\ Declared["foo"] = SecretMap(TRUE, "bar", TRUE, <<"build:release", "test">>, {})
    /\ Declared["AWS_ROLE"] = SecretMap(TRUE, "bar", TRUE, <<>>, {})
    /\ config.aws.k = "None"
    /\ config._processed_secrets["test"] = ("foo" :> "bar")
    /\ config._processed_secrets["validate"] = EmptyMap
    /\ config._processed_secrets["all"] = ("foo" :> "bar")

\* "all" as the same configuration yields it without aws
AllWithoutAws(cfg) ==
    processed_secrets(cfg.secrets, [k |-> "None"], cfg.gcloud, cfg.private)["all"]

AWS_NAMES == {"AWS_ROLE", "AWS_ROLE_SESSION_NAME"}

\* C3: whenever aws is configured, permissions.id_token is true, "all"
\* holds AWS_ROLE and AWS_ROLE_SESSION_NAME under their own names and is
\* otherwise what the configuration yields without aws, and every base
\* context is what the declared secrets alone yield (GenerateConfig and
\* Params alike).
C3_AwsAddsTwoToAll ==
    /\ (GCAccepted /\ config.aws.k # "None") =>
          LET all_secrets == config._processed_secrets["all"]
              without == AllWithoutAws(config)
              declared == processed_secrets(config.secrets, [k |-> "None"], FALSE, FALSE)
          IN  /\ "id_token" \in DOMAIN config._permissions
              /\ config._permissions["id_token"]
              /\ DOMAIN all_secrets = DOMAIN without \cup AWS_NAMES
              /\ \A var \in AWS_NAMES : all_secrets[var] = var
              /\ \A var \in DOMAIN without \ AWS_NAMES : all_secrets[var] = without[var]
              /\ \A c \in WorkflowContext : config._processed_secrets[c] = declared[c]
    /\ (ParamsAccepted /\ params.aws # EmptyMap) =>
          LET all_secrets == params.secrets["all"]
              without == Params_secrets(toml.secrets, AwsAbsent, params.gcloud)
          IN  /\ "id_token" \in DOMAIN params.permissions
              /\ params.permissions["id_token"]
              /\ DOMAIN all_secrets = DOMAIN without["all"] \cup AWS_NAMES
              /\ \A var \in AWS_NAMES : all_secrets[var] = var
              /\ \A var \in DOMAIN without["all"] \ AWS_NAMES :
                      all_secrets[var] = without["all"][var]
              /\ \A c \in Range(PARAMS_CONTEXTS) : params.secrets[c] = without[c]

\* aws configured next to a secret scoped to test: "all" has three entries
C3_Witness ==
    /\ GCAccepted
    /\ config.aws.k = "AwsConfig"
    /\ ~config.gcloud
    /\ ~config.private
    /\ Declared = ("foo" :> SecretMap(TRUE, "bar", TRUE, <<"test">>, {}))
    /\ config._processed_secrets["test"] = ("foo" :> "bar")
    /\ DOMAIN config._processed_secrets["all"] = {"foo", "AWS_ROLE", "AWS_ROLE_SESSION_NAME"}
    /\ config._permissions = ("id_token" :> TRUE)

GCLOUD_NAMES == {"GCLOUD_SERVICE_ACCOUNT", "GCLOUD_WORKLOAD_IDENTITY_PROVIDER"}

\* C4: enabling gcloud adds exactly GCLOUD_SERVICE_ACCOUNT and
\* GCLOUD_WORKLOAD_IDENTITY_PROVIDER to "all" (the rest of "all" is what
\* the configuration yields without gcloud), with aws as well "all" holds
\* both pairs, and every base context is what the declared secrets alone
\* yield, whatever aws, gcloud and private are.
C4_GcloudAddsTwoToAll ==
    GCAccepted =>
        LET all_secrets == config._processed_secrets["all"]
            without == processed_secrets(config.secrets, config.aws, FALSE, config.private)["all"]
            declared == processed_secrets(config.secrets, [k |-> "None"], FALSE, FALSE)
        IN  /\ \A c \in WorkflowContext : config._processed_secrets[c] = declared[c]
            /\ config.gcloud =>
                  /\ DOMAIN all_secrets = DOMAIN without \cup GCLOUD_NAMES
                  /\ \A var \in GCLOUD_NAMES : all_secrets[var] = var
                  /\ \A var \in DOMAIN without \ GCLOUD_NAMES : all_secrets[var] = without[var]
            /\ (config.gcloud /\ config.aws.k # "None") =>
                  \A var \in AWS_NAMES \cup GCLOUD_NAMES :
                      var \in DOMAIN all_secrets /\ all_secrets[var] = var

\* aws, gcloud and private enabled with one declared secret: the base
\* contexts hold the declared secret only
C4_Witness ==
    /\ GCAccepted
    /\ config.gcloud
    /\ config.aws.k = "AwsConfig"
    /\ config.private
    /\ Declared = ("foo" :> SecretStr("bar"))
    /\ \A c \in WorkflowContext : config._processed_secrets[c] = ("foo" :> "bar")
    /\ DOMAIN config._processed_secrets["all"]
           = {"foo", "COLUMNAR_CLOUD_API_TOKEN"} \cup AWS_NAMES \cup GCLOUD_NAMES

\* C5: for every accepted configuration, no entry of the projected "all"
\* mapping has the value GITHUB_TOKEN (GenerateConfig's _processed_secrets
\* and the secrets Params hands to the workflow templates).
C5_NoGithubTokenInAll ==
    /\ GCAccepted =>
          \A var \in DOMAIN config._processed_secrets["all"] :
              config._processed_secrets["all"][var] # "GITHUB_TOKEN"
    /\ ParamsAccepted =>
          \A var \in DOMAIN params.secrets["all"] :
              params.secrets["all"][var] # "GITHUB_TOKEN"

\* the keys outside the schema, each as the path of its table followed by
\* the key: root, aws, validation, secrets.<name>, lang.<name> and its build
UnknownKeyLocs(r) ==
    {<<key>> : key \in r.extra}
    \cup {<<"aws", key>> : key \in r.aws.extra}
    \cup {<<"validation", key>> : key \in r.validation.extra}
    \cup UNION {{<<"secrets", var, key>> : key \in r.secrets.m[var].extra} :
                var \in DOMAIN r.secrets.m}
    \cup UNION {{<<"lang", name, key>> : key \in r.lang.m[name].extra}
                \cup {<<"lang", name, "build", key>> : key \in r.lang.m[name].build.extra} :
                name \in DOMAIN r.lang.m}

\* the ValidationError of GenerateConfig lists the key as an extra input
GCNames(loc) ==
    \E e \in gc.errors :
        /\ e.type = "extra_forbidden"
        /\ SelectSeq(e.loc, LAMBDA x : x # "SecretConfigDict") = loc

\* the exception of Params is an unknown-keys error for the key's table
ParamsNames(loc) ==
    /\ perr.exc = "ValueError"
    /\ perr.path = SubSeq(loc, 1, Len(loc) - 1)
    /\ loc[Len(loc)] \in perr.keys

\* a configuration with a key outside the schema is never accepted
C6_NeverAccepted ==
    UnknownKeyLocs(toml) # {} =>
        /\ pc = "validated" => ~gc.ok
        /\ pc = "params" => perr # NoError

\* C6: validation fails for any input that has a key outside the schema at
\* any nesting level, and the failure names the unknown keys (GenerateConfig
\* and Params alike).
C6_UnknownKeysRejectedAndNamed ==
    UnknownKeyLocs(toml) # {} =>
        /\ pc = "validated" =>
              ~gc.ok /\ \A loc \in UnknownKeyLocs(toml) : GCNames(loc)
        /\ pc = "params" =>
              perr # NoError /\ \A loc \in UnknownKeyLocs(toml) : ParamsNames(loc)

\* the GenerateConfig half of C6 alone
C6_GenerateConfigNames ==
    (UnknownKeyLocs(toml) # {} /\ pc = "validated") =>
        ~gc.ok /\ \A loc \in UnknownKeyLocs(toml) : GCNames(loc)

\* a value given for a bool field that is not a bool
NonBool(v) == v.k \notin {"absent", "bool"}

\* environment given as something other than null or a string that is
\* non-empty after trimming
BadEnvironment(v) == v.k = "int" \/ (v.k = "str" /\ Strip(v.cs) = <<>>)

\* some secret lists a context outside the four context names
BadContext(r) ==
    \E var \in DOMAIN r.secrets.m :
        \E i \in DOMAIN r.secrets.m[var].contexts :
            r.secrets.m[var].contexts[i]
                \notin {"build:test", "build:release", "test", "validate"}

Rejected ==
    /\ pc = "validated" => ~gc.ok
    /\ pc = "params" => perr # NoError

\* C7: validation rejects a private, gcloud or skip_validate value that is
\* not a boolean, an environment that is neither absent, null nor a string
\* non-empty after trimming, and a secret context name outside the four
\* context names (GenerateConfig and Params alike).
C7_FieldTypesChecked ==
    ( \/ NonBool(toml.private)
      \/ NonBool(toml.gcloud)
      \/ \E name \in DOMAIN toml.lang.m :
             toml.lang.m[name].k = "map" /\ NonBool(toml.lang.m[name].skip)
      \/ BadEnvironment(toml.environment)
      \/ BadContext(toml) ) => Rejected

\* the environment and context parts of C7 alone
C7_EnvironmentAndContexts ==
    (BadEnvironment(toml.environment) \/ BadContext(toml)) => Rejected

\* the LangConfig a table entry validates to
IsValidatedLangConfig(v, e) ==
    /\ v.k = "LangConfig"
    /\ e.skip.k = "absent" => ~v.skip_validate
    /\ e.skip.k = "bool" => v.skip_validate = e.skip.b
    /\ v.build = [additional_make_args |-> e.build.args, lang_tools |-> e.build.tools]

IsDefaultLangConfig(v) ==
    v = [k |-> "LangConfig",
         build |-> [additional_make_args |-> <<>>, lang_tools |-> <<>>],
         skip_validate |-> FALSE]

AllLangBool == toml.lang.k = "map" /\ \A name \in DOMAIN toml.lang.m : toml.lang.m[name].k = "bool"

\* a lang map equal to the input map of bools
EqualsInputLang(lang) ==
    /\ DOMAIN lang = DOMAIN toml.lang.m
    /\ \A name \in DOMAIN lang : lang[name].k = "bool" /\ lang[name].b = toml.lang.m[name].b

\* C9: when every lang entry of the input is a boolean, the validated
\* configuration's lang map and to_dict()["lang"] equal the input map (true
\* stays true, false stays false, every key is kept), for GenerateConfig
\* and for Params.
C9_BoolLangKept ==
    AllLangBool =>
        /\ GCAccepted => EqualsInputLang(config.lang)
        /\ ParamsAccepted => EqualsInputLang(params.lang)
        /\ pc \in {"dumped", "params_dumped"} => EqualsInputLang(dumped.lang)

\* the Params half of C9 alone
C9_ParamsKeepsBools ==
    (AllLangBool /\ ParamsAccepted) =>
        /\ EqualsInputLang(params.lang)
        /\ pc = "params_dumped" => EqualsInputLang(dumped.lang)

\* C10: for the empty configuration, GenerateConfig's projected secrets are
\* exactly the four keys all, build:release, test and validate, each mapped
\* to an empty mapping, its permissions are empty, and to_dict() reports the
\* same secrets and permissions.
C10_EmptyConfigProjection ==
    (toml = EmptyRaw /\ GCAccepted) =>
        /\ DOMAIN config._processed_secrets = {"all", "build:release", "test", "validate"}
        /\ \A c \in DOMAIN config._processed_secrets : config._processed_secrets[c] = EmptyMap
        /\ config._permissions = EmptyMap
        /\ pc = "dumped" =>
              /\ dumped.secrets = config._processed_secrets
              /\ dumped.permissions = config._permissions

\* everything C10 states except the set of keys
C10_EmptyConfigOtherwise ==
    (toml = EmptyRaw /\ GCAccepted) =>
        /\ \A c \in DOMAIN config._processed_secrets : config._processed_secrets[c] = EmptyMap
        /\ config._permissions = EmptyMap
        /\ pc = "dumped" =>
              /\ dumped.secrets = config._processed_secrets
              /\ dumped.permissions = config._permissions

\* ---- C11
\* C11 (as stated): validating a raw mapping, with GenerateConfig.model_validate
\* or with Params(raw), leaves the mapping as it was read, so that validating
\* it a second time gives the same outcome and the same configuration.
C11_ValidationKeepsMapping ==
    /\ pc # "loaded" => raw = toml
    /\ pc = "params" => (Params_error(raw) = perr /\ Params(raw) = params)
    /\ pc = "validated" =>
          (model_validate_outcome(raw) = gc /\ model_validate_config(raw) = config)

\* ---- C12
\* C12: for every accepted configuration, model_dump (by alias, None
\* excluded, private attributes omitted) followed by model_validate is
\* accepted and yields the same projected secrets and permissions.
C12_RoundTrip ==
    pc = "revalidated" =>
        /\ gc2.ok
        /\ reparsed._processed_secrets = config._processed_secrets
        /\ reparsed._permissions = config._permissions

\* a secret table with an explicit one-context list next to a bare string,
\* with aws enabled, has been dumped and validated again
C12_Witness ==
    /\ pc = "revalidated"
    /\ gc2.ok
    /\ toml.secrets.k = "map"
    /\ DOMAIN Declared = {"foo", "AWS_ROLE"}
    /\ Declared["foo"].k = "map"
    /\ Declared["foo"].hasContexts
    /\ Declared["foo"].contexts = <<"test">>
    /\ Declared["AWS_ROLE"].k = "str"
    /\ config.aws.k # "None"
    /\ serialized.environment = EnvAbsent
    /\ reparsed._processed_secrets["test"] # reparsed._processed_secrets["validate"]
    /\ reparsed._permissions = ("id_token" :> TRUE)

\* ---- version detection: helpers
\* detect_version has run on a driver directory that has a manifest and lies
\* in a git repository
Detected == vpc = "done" /\ repo.hasManifest /\ repo.inRepo

\* the tags git lists for the driver, newest first
MatchingTags == git_tag_list(repo.tags, tag_prefix(repo.rel))

\* git status reports a line that is not an untracked file
TrackedChange == \E i \in DOMAIN repo.status : repo.status[i][1] # "?"

\* the newest matching tag without its path prefix, e.g. v1.1.0
NewestTagVersion ==
    IF repo.rel = <<".">> THEN MatchingTags[1] ELSE SliceFrom(MatchingTags[1], Len(repo.rel) + 1)

\* ---- C13
\* C13: with a manifest and inside a git repository, non-strict
\* detect_version returns a version for every combination of tags, commits
\* since the tag and working tree state; it never raises.
C13_NonStrictNeverRaises == (Detected /\ ~strict) => (vresult.ok /\ vresult.version # <<>>)

\* a non-strict run without tags and one with a tag, two commits and a
\* modified tracked file have both returned
C13_Witness ==
    /\ Detected
    /\ ~strict
    /\ MatchingTags # <<>>
    /\ repo.count = 2
    /\ TrackedChange
    /\ vresult.ok

\* ---- C14
\* C14: when HEAD is on the newest matching tag and git status lists nothing
\* but untracked files, detect_version returns exactly the tag without its
\* path prefix, with no suffix, in strict and in non-strict mode.
C14_OnTagCleanIsTag ==
    (Detected /\ MatchingTags # <<>> /\ repo.count = 0 /\ ~TrackedChange) =>
        vresult = Version(NewestTagVersion)

\* a strict run in the go/ subdirectory, on tag go/v1.1.0 with an older tag
\* present and one untracked file, returned v1.1.0
C14_Witness ==
    /\ Detected
    /\ strict
    /\ repo.rel = <<"g", "o">>
    /\ Len(MatchingTags) = 2
    /\ repo.count = 0
    /\ repo.status = << <<"?", "?", " ", "new.txt">> >>
    /\ vresult = Version(<<"v", "1.1.0">>)

\* ---- C15
\* C15: with the newest tag N > 0 commits behind HEAD and a tracked file
\* modified, non-strict detect_version returns
\* <tag-version>-dev.<N>.<short-hash>-dirty, and strict detect_version fails
\* with the not-on-tag error; strict mode fails with no-tags before
\* not-on-tag before dirty-tree.
C15_DevBeforeDirtyAndErrorOrder ==
    Detected =>
        /\ (MatchingTags # <<>> /\ repo.count > 0 /\ TrackedChange) =>
               IF strict THEN vresult = VersionError("NotOnTag")
               ELSE vresult = Version(NewestTagVersion
                                      \o <<"-dev.", ToString(repo.count), ".", repo.rev, "-dirty">>)
        /\ strict =>
               vresult = IF MatchingTags = <<>> THEN VersionError("NoTagsFound")
                         ELSE IF repo.count > 0 THEN VersionError("NotOnTag")
                         ELSE IF TrackedChange THEN VersionError("DirtyTree")
                         ELSE Version(NewestTagVersion)

\* a non-strict run two commits past v1.1.0 with a modified tracked file
C15_Witness ==
    /\ Detected
    /\ ~strict
    /\ repo.rel = <<".">>
    /\ repo.count = 2
    /\ TrackedChange
    /\ vresult = Version(<<"v", "1.1.0", "-dev.", "2", ".", "abc1234", "-dirty">>)

\* ---- C16
\* C16 (as stated): without a matching tag, strict detect_version fails with
\* the no-tags error and non-strict detect_version returns "unknown",
\* whatever the state of the working tree.
C16_AsStated ==
    (Detected /\ MatchingTags = <<>>) =>
        vresult = IF strict THEN VersionError("NoTagsFound") ELSE Version(<<"unknown">>)

\* C16 (amended): without a matching tag, strict detect_version fails with
\* the no-tags error whatever the working tree; non-strict detect_version
\* returns "unknown" when git status lists no tracked change and
\* "unknown-dirty" when it lists one.
C16_UnknownOrUnknownDirty ==
    (Detected /\ MatchingTags = <<>>) =>
        vresult = IF strict THEN VersionError("NoTagsFound")
                  ELSE IF TrackedChange THEN Version(<<"unknown", "-dirty">>)
                  ELSE Version(<<"unknown">>)

\* a non-strict run in a repository whose only tags belong to another
\* directory, with a staged change, returned unknown-dirty
C16_Witness ==
    /\ Detected
    /\ ~strict
    /\ repo.tags # <<>>
    /\ MatchingTags = <<>>
    /\ TrackedChange
    /\ vresult = Version(<<"unknown", "-dirty">>)

\* ---- C17
\* the file name up to its first ".", without one leading "lib"
Stem ==
    LET dots == {i \in DOMAIN filename : filename[i] = "."}
        first == IF dots = {} THEN Len(filename) + 1
                 ELSE CHOOSE i \in dots : \A j \in dots : i <= j
        base == SubSeq(filename, 1, first - 1)
    IN  IF Len(base) >= 3 /\ SubSeq(base, 1, 3) = LIB THEN SubSeq(base, 4, Len(base)) ELSE base

\* the stem is adbc_driver_<third> and <third> holds no "_"
FollowsConvention ==
    LET lead == ADBC \o <<"_">> \o DRIVER \o <<"_">>
    IN  /\ Len(Stem) >= Len(lead)
        /\ SubSeq(Stem, 1, Len(lead)) = lead
        /\ \A i \in (Len(lead) + 1)..Len(Stem) : Stem[i] # "_"

\* C17: normalize_driver_name returns the third "_"-separated part of the
\* stem exactly when the stem has three parts and the first two are adbc and
\* driver; for every other file name it raises ValueError.
C17_ThirdPartOrValueError ==
    name_result # NameError("not run") /\ name_result # NameError("idle") =>
        IF FollowsConvention
        THEN name_result = NameOk(SubSeq(Stem, Len(ADBC) + Len(DRIVER) + 3, Len(Stem)))
        ELSE name_result = NameError("ValueError")

\* libadbc_driver_foo.so.1 gave foo: the name is cut at the first "."
C17_Witness ==
    /\ filename = LIB \o ADBC \o <<"_">> \o DRIVER \o <<"_">> \o FOO \o <<".", "s", "o", ".", "1">>
    /\ name_result = NameOk(FOO)

\* ---- C18
ManifestItemNames ==
    <<"name", "description", "publisher", "license", "version", "Files", "Files.driver">>

\* the values validate_manifest looks at, in the order it looks at them
ManifestItems ==
    [i \in 1..7 |->
        IF i <= 5 THEN manifest.fields[ManifestItemNames[i]]
        ELSE IF i = 6 THEN (IF manifest.section.k = "absent" THEN MAbsent ELSE MStr(<<"table">>))
        ELSE manifest.section.drv]

\* missing, not a string, or empty
BadItem(value) == value.k # "str" \/ value.v = <<>>

Validated == manifest_error.what \notin {"not run", "idle"}

\* C18: validate_manifest raises an error naming the first of name,
\* description, publisher, license, version, Files, Files.driver that is
\* missing, not a string or empty, and returns without error exactly when
\* none is.
C18_FirstBadFieldNamed ==
    Validated =>
        LET bad == {i \in 1..7 : BadItem(ManifestItems[i])}
            first == CHOOSE i \in bad : \A j \in bad : i <= j
        IN  IF bad = {} THEN manifest_error = NoManifestError
            ELSE /\ manifest_error.field = ManifestItemNames[first]
                 /\ manifest_error.what =
                        CASE ManifestItems[first].k = "absent" -> "missing"
                          [] ManifestItems[first].k # "str" -> "must be a string"
                          [] OTHER -> "must not be empty"

\* a manifest with an empty version and no Files section was rejected for
\* its version; a complete one was accepted
C18_Witness ==
    /\ Validated
    /\ \A i \in 1..4 : ~BadItem(ManifestItems[i])
    /\ manifest.fields["version"] = MStr(<<>>)
    /\ manifest.section = FilesAbsent
    /\ manifest_error = ManifestError("version", "must not be empty")

C18_WitnessAccepted ==
    /\ Validated
    /\ \A i \in 1..7 : ~BadItem(ManifestItems[i])
    /\ manifest_error = NoManifestError

\* ---- C19
\* the value a serialized manifest holds for a key (MAbsent when it has none)
Recorded(doc, key) ==
    LET at == {i \in DOMAIN doc : doc[i].key = key}
    IN  IF at = {} THEN MAbsent ELSE doc[CHOOSE i \in at : TRUE].value

Packaged == ppc = "packaged" /\ packages.k = "list"

\* C19: generate_packages returns one Package per discovered triple, in
\* input order; its files are exactly the binary under its own file name
\* and MANIFEST, and that MANIFEST records the detected version and, as
\* Files.driver, the file name of that same binary.
C19_OnePackagePerDriver ==
    /\ (ppc = "packaged" /\ packages.k = "raised") =>
          \/ ~detect_version(repo, strict).ok
          \/ found.k = "int"
          \/ found.drivers # <<>> /\ \E i \in 1..3 : BadItem(template.fields[ManifestItemNames[i]])
    /\ Packaged =>
        /\ Len(packages.packages) = Len(found.drivers)
        /\ \A i \in DOMAIN packages.packages :
               LET package == packages.packages[i]
                   driver == found.drivers[i]
               IN  /\ package.platform = driver.platform
                   /\ package.architecture = driver.architecture
                   /\ package.version = detect_version(repo, strict).version
                   /\ DOMAIN package.files = {driver.path.name, MANIFEST}
                   /\ package.files[driver.path.name] = BinaryBytes(driver.path)
                   /\ package.files[MANIFEST].kind = "manifest"
                   /\ Recorded(package.files[MANIFEST].doc, "version") = MStr(package.version)
                   /\ Recorded(package.files[MANIFEST].doc, "Files.driver")
                          = MStr(driver.path.name)

\* two drivers with different file names were packaged in one call
C19_Witness ==
    /\ Packaged
    /\ Len(packages.packages) = 2
    /\ found.drivers[1].path.name # found.drivers[2].path.name
    /\ packages.packages[1].version = <<"v", "1.1.0", "-dev.", "1", ".", "abc1234", "-dirty">>
    /\ Recorded(packages.packages[1].files[MANIFEST].doc, "Files.driver")
          = MStr(found.drivers[1].path.name)

\* ---- C20
\* the input directories all carry a valid drivers-<platform>-<architecture>
\* name
ValidDirNames ==
    \A i \in DOMAIN input_dirs :
        /\ Len(input_dirs[i].name) = 5
        /\ input_dirs[i].name[1] = "drivers"
        /\ Lower(input_dirs[i].name[3]) \in Platform
        /\ Lower(input_dirs[i].name[5]) \in Architecture

\* C20 (as stated): a shared library whose name does not follow the
\* libadbc_driver_<name> convention is skipped and discovery goes on; it
\* never aborts the packaging run.
C20_NonConformingSkipped ==
    (ppc # "start" /\ ValidDirNames) => (ppc # "aborted" /\ found.k = "list")

\* C21: when main returns, every archive was written to
\* <output>/<name>/<version>/<name>_<platform>_<architecture>_<version>.tar.gz
\* of one package, no archive path was written more than once, and
\* manifest.yaml lists exactly one entry per archive, with its relative URL.
ManifestUrls ==
    UNION {{e.url : e \in Range(bucket.pkginfo[v].packages)} : v \in DOMAIN bucket.pkginfo}
ManifestEntryCount == IF bucket.pkginfo = <<>> THEN 0 ELSE Len(bucket.pkginfo[1].packages)

C21_ArchivesWrittenOnce ==
    ppc = "written" =>
        /\ Len(archives) = Len(packages.packages)
        /\ \A i \in DOMAIN archives :
              archives[i] = [dir |-> <<OUTPUT, FOO, packages.packages[i].version>>,
                             file |-> FOO \o <<"_", packages.packages[i].platform, "_",
                                               packages.packages[i].architecture, "_">>
                                      \o packages.packages[i].version \o <<".tar.gz">>]
        /\ \A i, j \in DOMAIN archives : archives[i] = archives[j] => i = j
        /\ bucket.written
        /\ ManifestEntryCount = Cardinality(Range(archives))
        /\ ManifestUrls = {a.dir[2] \o <<"/">> \o a.dir[3] \o <<"/">> \o a.file :
                               a \in Range(archives)}

\* without the part that fails: the paths and the URLs match, whatever the
\* number of times a path is written
C21_PathsAndUrlsMatch ==
    ppc = "written" =>
        /\ Len(archives) = Len(packages.packages)
        /\ bucket.written
        /\ ManifestUrls = {a.dir[2] \o <<"/">> \o a.dir[3] \o <<"/">> \o a.file :
                               a \in Range(archives)}

\* ---- the changelog as a reader sees it
ChangelogDone == cpc = "done" /\ changelog.k = "ok"

\* the commits the walk visits, newest first, and the ones among them that
\* generate_changelog takes in
Walked == [i \in 1..(Len(history) - start_ref) |-> history[Len(history) - i + 1]]
TakenIn == SelectSeq(Walked, LAMBDA c : include(c, subpath))

\* the type of a conventional title
TitleType(c) == IF Len(c.message) = 3 /\ c.message[2] = ": " THEN c.message[1] ELSE "none"

IsHeading(line) == Len(line) = 2 /\ line[1] = "## "
DetailedAt == CHOOSE i \in DOMAIN changelog.body : changelog.body[i] = <<"## ", "Detailed Changelog">>

\* the lines of the body under a heading, up to the next heading
RECURSIVE UpToHeading(_)
UpToHeading(lines) ==
    IF lines = <<>> \/ IsHeading(Head(lines)) THEN <<>>
    ELSE <<Head(lines)>> \o UpToHeading(Tail(lines))
Under(heading) ==
    IF \E i \in DOMAIN changelog.body : changelog.body[i] = <<"## ", heading>>
    THEN LET at == CHOOSE i \in DOMAIN changelog.body : changelog.body[i] = <<"## ", heading>>
         IN  SelectSeq(UpToHeading(SubSeq(changelog.body, at + 1, Len(changelog.body))),
                       LAMBDA l : l # <<>>)
    ELSE <<>>

\* C22: the body has the sections New Features (feat), Bug Fixes (fix),
\* Performance Improvements (perf), Documentation Updates (docs) in that
\* order, without the ones that have no commit, and ends with Detailed
\* Changelog, where every commit taken in appears exactly once as
\* "<short-hash>: <first message line>" in walk order; a commit of another
\* category appears only there.
C22_SectionsInOrderThenDetailed ==
    ChangelogDone =>
        LET body == changelog.body
            order == << <<"feat", "New Features">>, <<"fix", "Bug Fixes">>,
                        <<"perf", "Performance Improvements">>,
                        <<"docs", "Documentation Updates">> >>
            nonempty == SelectSeq(order, LAMBDA p : \E i \in DOMAIN TakenIn :
                                                         TitleType(TakenIn[i]) = p[1])
            headings == SelectSeq(body, IsHeading)
        IN  /\ headings = [i \in 1..Len(nonempty) |-> <<"## ", nonempty[i][2]>>]
                           \o << <<"## ", "Detailed Changelog">> >>
            /\ \A k \in DOMAIN order :
                  Under(order[k][2]) =
                      LET mine == SelectSeq(TakenIn, LAMBDA c : TitleType(c) = order[k][1])
                      IN  [i \in 1..Len(mine) |-> <<"- ", mine[i].message[3]>>]
            /\ Under("Detailed Changelog") =
                  [i \in 1..Len(TakenIn) |->
                      <<"- ", TakenIn[i].short_id, ": ">> \o TakenIn[i].message]
            /\ body # <<>> /\ body[Len(body)] # <<>>

\* fix is newer than feat, and New Features still comes first
C22_Witness ==
    /\ ChangelogDone
    /\ Len(TakenIn) = 2
    /\ TitleType(TakenIn[1]) = "fix"
    /\ TitleType(TakenIn[2]) = "feat"
    /\ Len(changelog.body) = 12

\* a commit of no curated category is in the Detailed Changelog alone
C22_WitnessOther ==
    /\ ChangelogDone
    /\ Len(TakenIn) = 2
    /\ TitleType(TakenIn[1]) = "chore"
    /\ TitleType(TakenIn[2]) = "docs"

\* the ids of the commits listed in the Detailed Changelog
Listed == {changelog.body[i][2] : i \in (DetailedAt + 2)..Len(changelog.body)}

\* a file of the subpath directory
InDirectory(path) == StartsWith(path, subpath \o <<"/">>)

\* C23: with subpath "." every walked commit is taken in; otherwise a commit
\* is taken in exactly when its diff against its first parent touches a
\* file under the subpath directory, and a commit without parent exactly
\* when a file of its snapshot lies under it (a sibling such as
\* <subpath>2/x does not count).
C23_InDirectoryOnly ==
    ChangelogDone =>
        Listed = {Walked[i].short_id : i \in
                     {i \in DOMAIN Walked :
                         \/ subpath = DOT
                         \/ /\ Walked[i].parents # <<>>
                            /\ \E d \in DOMAIN Walked[i].delta :
                                  \/ InDirectory(Walked[i].delta[d].new_file)
                                  \/ InDirectory(Walked[i].delta[d].old_file)
                         \/ /\ Walked[i].parents = <<>>
                            /\ \E f \in snapshot(history, 1) : InDirectory(f)}}

\* ---- generate_workflows as the repository sees it
WorkflowDone == wpc = "done" /\ has_config
WorkflowFiles == Range(workflow.files)
EnabledLangs == SelectSeq(LangOrder, LAMBDA l : l \in DOMAIN params.lang /\ params.lang[l].b)
MissingLicense == {l \in Range(EnabledLangs) : l \notin license_tpl}

\* C24: the configuration is validated before the first file is written:
\* for every invalid configuration the run fails and no workflow, linter or
\* pixi.toml file is written.
C24_InvalidConfigWritesNothing ==
    (WorkflowDone /\ ~model_validate_outcome(toml).ok) =>
        (workflow.k = "raised" /\ workflow.files = <<>>)

\* the part that holds: a run that Params ends has written nothing
C24_RejectedByParamsWritesNothing ==
    (WorkflowDone /\ perr # NoError) => (workflow.k = "raised" /\ workflow.files = <<>>)

\* C25: go_test_pr.yaml is written exactly when the projected all mapping
\* is not empty.
C25_AsStated ==
    (WorkflowDone /\ workflow.k = "returned") =>
        (<<WORKFLOWS, "go_test_pr.yaml">> \in WorkflowFiles <=> params.secrets["all"] # EmptyMap)

\* C25 (amended): go_test_pr.yaml is written exactly when the Go language is
\* enabled and the projected all mapping is not empty.
C25_GoEnabledAndAnySecret ==
    (WorkflowDone /\ workflow.k = "returned") =>
        (<<WORKFLOWS, "go_test_pr.yaml">> \in WorkflowFiles
            <=> (/\ "go" \in Range(EnabledLangs)
                 /\ params.secrets["all"] # EmptyMap))

\* Go is enabled and the only secrets are the ones aws adds
C25_Witness ==
    /\ WorkflowDone
    /\ workflow.k = "returned"
    /\ "go" \in Range(EnabledLangs)
    /\ toml.secrets.k = "absent"
    /\ DOMAIN params.secrets["all"] = {"AWS_ROLE", "AWS_ROLE_SESSION_NAME"}
    /\ <<WORKFLOWS, "go_test_pr.yaml">> \in WorkflowFiles

\* Go is enabled and no secret applies
C25_WitnessNone ==
    /\ WorkflowDone
    /\ workflow.k = "returned"
    /\ "go" \in Range(EnabledLangs)
    /\ params.secrets["all"] = EmptyMap
    /\ <<WORKFLOWS, "go_test_pr.yaml">> \notin WorkflowFiles

\* C26: a missing license.tpl of an enabled language ends the run with a
\* nonzero result, and no file is written for that or a later language.
C26_AsStated ==
    (WorkflowDone /\ workflow.k = "returned" /\ MissingLicense # {}) =>
        /\ workflow.code # 0
        /\ \A i \in DOMAIN EnabledLangs :
              (\E j \in 1..i : EnabledLangs[j] \in MissingLicense)
                  => <<EnabledLangs[i], "pixi.toml">> \notin WorkflowFiles

\* C26 (amended): a missing license.tpl does not end the run: the pixi.toml
\* of every enabled language is written, in the order of the lang table,
\* after the workflows, and the result is 1 exactly when the license.tpl of
\* some enabled language is missing, 0 otherwise.
C26_MissingLicenseOnlySetsResult ==
    (WorkflowDone /\ workflow.k = "returned") =>
        /\ workflow.code = IF MissingLicense # {} THEN 1 ELSE 0
        /\ SelectSeq(workflow.files, LAMBDA f : f[2] = "pixi.toml")
              = [i \in 1..Len(EnabledLangs) |-> <<EnabledLangs[i], "pixi.toml">>]

\* go has no license.tpl, rust has one, and both have their pixi.toml
C26_Witness ==
    /\ WorkflowDone
    /\ workflow.k = "returned"
    /\ EnabledLangs = <<"go", "rust">>
    /\ license_tpl = {"rust"}
    /\ workflow.code = 1
    /\ <<"rust", "pixi.toml">> \in WorkflowFiles

\* ---- the cache over the runs of the license check
JarComplete == jar.exists /\ jar.chunks = jar.total
RunFailed == rat_result.k \in {"ConnectionError", "HTTPError", "ChunkedEncodingError"}

\* C27: between runs the cached jar exists only as the whole file of a
\* download that completed; a run that finds it does not download and
\* leaves it as it is; a run whose download fails ends with the error and
\* no file, so that the next run downloads again.
C27_CacheOnlyAfterCompleteDownload ==
    /\ [](rpc \in {"idle", "check"} => (jar.exists => JarComplete))
    /\ [](rpc = "idle" /\ RunFailed => ~jar.exists)
    /\ [][(rpc = "idle" /\ rpc' # "idle")
             => (IF jar.exists THEN rpc' = "check" /\ jar' = jar ELSE rpc' = "get")]_vars
    /\ [][(rpc = "check" /\ rpc' = "idle")
             => (jar' = jar /\ rat_result'.k = "returned")]_vars

\* the first download broke off after a chunk, the second run downloaded
\* the file again and checked the archive
C27_Witness ==
    /\ runs = 2
    /\ rpc = "idle"
    /\ rat_result.k = "returned"
    /\ rat_result.downloaded
    /\ JarComplete /\ jar.total = 2

\* the second run found the file and skipped the download
C27_WitnessSkipped ==
    /\ runs = 2
    /\ rpc = "idle"
    /\ rat_result.k = "returned"
    /\ ~rat_result.downloaded
    /\ JarComplete

\* ---- the checks as their caller sees them
Checked(m) == m.kind = "file"
IsExcluded(m) ==
    \E i \in DOMAIN rat_excludes :
        \/ rat_excludes[i] = m.name
        \/ rat_excludes[i] = <<"*", m.name[2]>>
CopyrightViolations ==
    {i \in DOMAIN archive : /\ Checked(archive[i]) /\ archive[i].size > 0
                            /\ ~IsExcluded(archive[i])
                            /\ archive[i].header_line \notin {1, 2}}
RatRan == rpc = "idle" /\ rat_result.k = "returned"
CopyrightRan == copyright_result # -1

\* C28: the checks return the number of violations: one for each
\* non-excluded file without the copyright header in the lines scanned, none
\* for an excluded file, 0 when there is none (stated here for copyright.py).
C28_AsStated ==
    CopyrightRan => copyright_result = Cardinality(CopyrightViolations)

\* C28 (amended): copyright.py returns 1 when some non-excluded, non-empty
\* file lacks the header in its first two lines and 0 otherwise; the RAT
\* check returns a count: one for each non-excluded file RAT does not
\* approve, one for each non-excluded file other than LICENSE.txt and
\* NOTICE.txt without the header in its first 20 lines, and one for each
\* file, excluded or not, whose "modified" header disagrees with .rat-apache.
C28_FlagAndCount ==
    /\ CopyrightRan => copyright_result = IF CopyrightViolations # {} THEN 1 ELSE 0
    /\ RatRan =>
          rat_result.code =
              Cardinality({i \in DOMAIN archive :
                              /\ Checked(archive[i]) /\ ~IsExcluded(archive[i])
                              /\ archive[i].approved = "false"})
              + Cardinality({i \in DOMAIN archive :
                                /\ Checked(archive[i]) /\ ~IsExcluded(archive[i])
                                /\ archive[i].name # <<"LICENSE", ".txt">>
                                /\ ~(archive[i].header_line >= 1 /\ archive[i].header_line <= 20)})
              + Cardinality({i \in DOMAIN archive :
                                /\ Checked(archive[i])
                                /\ archive[i].modified
                                       # (\E j \in DOMAIN rat_apache :
                                             rat_apache[j] = archive[i].name)})

\* two files lack the header and copyright.py returns 1
C28_Witness ==
    /\ CopyrightRan
    /\ Cardinality(CopyrightViolations) = 2
    /\ copyright_result = 1

\* the RAT check counts a file without any header twice and leaves the
\* excluded file out
C28_WitnessRat ==
    /\ RatRan
    /\ Len(archive) = 2
    /\ archive[1].name = <<"a", ".py">> /\ archive[1].approved = "false"
    /\ archive[2].name = <<"b", ".json">> /\ ~archive[2].modified
    /\ IsExcluded(archive[2])
    /\ rat_result.code = 2

\* ---- the release as the changelog sees it
Released == relpc = "done"
OwnPrefix == IF "/" \in Range(release_tag) THEN GoDir \o <<"/", "v">> ELSE <<"v">>
OwnNumbers(t) ==
    CASE t[Len(t)] = "1.2.0" -> <<1, 2, 0>>
      [] t[Len(t)] = "1.9.0" -> <<1, 9, 0>>
      [] t[Len(t)] = "1.10.0" -> <<1, 10, 0>>
Older(a, b) ==
    \E k \in 1..3 : a[k] < b[k] /\ \A h \in 1..(k - 1) : a[h] = b[h]
SamePrefixTags ==
    {t \in ReleaseTags : /\ <<"refs/tags/">> \o t \in Range(references)
                          /\ SubSeq(t, 1, Len(t) - 1) = OwnPrefix}
LowerTags == {t \in SamePrefixTags : Older(OwnNumbers(t), OwnNumbers(release_tag))}

\* C29: the changelog starts at the existing tag of the same prefix with
\* the greatest version strictly lower than the released one (at no tag when
\* there is none), and the version passed for the title is the one of the
\* tag being released, whatever tags exist and in whatever order.
C29_PreviousTagAndOwnVersion ==
    Released =>
        /\ call.version = OwnNumbers(release_tag)
        /\ call.end_ref = release_tag
        /\ IF LowerTags = {} THEN call.start_ref = NoTag
           ELSE /\ call.start_ref \in LowerTags
                /\ \A t \in LowerTags : ~Older(OwnNumbers(call.start_ref), OwnNumbers(t))

\* every variable of a base context, unless its value is GITHUB_TOKEN, is in
\* "all" with the value the base context gives it
AllAgreesWithBase(secrets, contexts) ==
    \A c \in contexts : \A var \in DOMAIN secrets[c] :
        secrets[c][var] # "GITHUB_TOKEN"
            => (var \in DOMAIN secrets["all"] /\ secrets["all"][var] = secrets[c][var])

\* C30: for every accepted configuration the "all" mapping agrees with the
\* base contexts: a variable that a base context holds with a value other
\* than GITHUB_TOKEN is in "all" with that value, also when aws, gcloud or
\* private is set and a declared secret has one of their fixed names.
C30_AllAgreesWithBaseContexts ==
    /\ GCAccepted => AllAgreesWithBase(config._processed_secrets, WorkflowContext)
    /\ ParamsAccepted => AllAgreesWithBase(params.secrets, Range(PARAMS_CONTEXTS))

\* the part that holds: the agreement for every variable that has none of
\* the fixed names of the enabled settings
C30_AgreesExceptFixedNames ==
    GCAccepted =>
        \A c \in WorkflowContext : \A var \in DOMAIN config._processed_secrets[c] :
            (config._processed_secrets[c][var] # "GITHUB_TOKEN" /\ var \notin FixedNames(config))
                => (/\ var \in DOMAIN config._processed_secrets["all"]
                    /\ config._processed_secrets["all"][var] = config._processed_secrets[c][var])

====
